---- MODULE Spec2Model ----
(***************************************************************************)
(* Verification model of the TEE tile / pyramid / similarity-search code.  *)
(*                                                                         *)
(* Numbers are integers.  A Euclidean distance is carried as its square    *)
(* (sqrt is strictly increasing on the non-negative reals, so              *)
(* sqrt(s) <= T  <=>  s <= T*T for T >= 0, and ordering by distance is     *)
(* ordering by squared distance).  Floating point rounding is not          *)
(* modelled.                                                               *)
(***************************************************************************)
EXTENDS Integers, Sequences, FiniteSets, TLC

VARIABLES
    \* ---- FAISS index artifacts of one (viewport, year) and their readers
    mosaic,          \* MOSAICS_DIR/<viewport>_embeddings_<year>.tif
    faissDir,        \* FAISS_INDICES_DIR/<viewport>/<year> exists
    indexFile,       \* embeddings.index
    embFile,         \* all_embeddings.npy
    coordsFile,      \* pixel_coords.npy
    metaFile,        \* metadata.json
    faissDataCache,  \* _faiss_data_cache[(viewport, year)]
    resp,            \* answer of the last web_server request
    \* ---- tile server (src/tile_server.py)
    tileFiles,       \* the level files that exist under PYRAMIDS_BASE_DIR
    readers,         \* readers: cache key -> path of the level file
    tileResp,        \* answer of the last get_tile request
    \* ---- the pixel window arithmetic of get_tile on its own
    winReq,          \* raster size and requested integer window
    winTile,         \* the tile made from it
    \* ---- create_rgb_pyramids for one source file and one output directory
    rgbFile,         \* the source GeoTIFF: whether it exists, and its mtime
    pyrDir,          \* output_dir exists
    pyrLevels,       \* level_<k>.tif of output_dir, k = 0..4
    pyrMeta,         \* pyramid_metadata.json of output_dir
    build,           \* where the running create_rgb_pyramids call stands
    pyrResp,         \* what the last create_rgb_pyramids call returned
    \* ---- pixel dimensions of the level files of the two pyramid builders
    imgSource,       \* width and height of the source raster
    imgLevels,       \* level_0.tif .. written by create_pyramids_for_image
    rgbLevels,       \* level_0.tif .. written by create_rgb_pyramids
    \* ---- api_relabel_by_similarity on its own
    relReq,          \* body of the relabel request
    relResp,         \* answer of api_relabel_by_similarity
    \* ---- the zoom-to-level mappings on their own
    zoomCalls,       \* the last two zoom-to-level calls, newest first
    \* ---- the bounds endpoint of src/backend/tile_server.py
    vpMetadata,      \* DATA_DIR/<viewport_id>/metadata.json
    backendResp,     \* answer of get_tile_bounds (backend/tile_server.py)
    \* ---- create_coarsened_pyramids for one year
    rawEmbeddings,   \* raw/embeddings_<year>.npy
    coarseLevels,    \* level_0.npy .. of the year written so far
    \* ---- api_relabel_by_similarity called again and again
    relLast,         \* the latest relabel call of a running server
    relEarlier,      \* one of the relabel calls made before it
    \* ---- tile_to_bbox of the three servers
    bboxReq,         \* the tile (x, y, z) the three tile_to_bbox are called with
    bboxCall,        \* what each of them returned
    \* ---- stage 4 of the pipeline over the years of a viewport
    yearMosaic,      \* per year: the embedding mosaic of the viewport
    yearFaiss,       \* per year: the FAISS directory and its four artifacts
    stageResp,       \* what the last stage 4 returned and deleted
    \* ---- is-ready polls and the pipeline threads they start
    created,         \* the viewport has been created
    tasks,           \* status of tasks[operation_id], "none" when not in tasks
    pollPc,          \* per is-ready request: where its handler stands
    runs,            \* download_and_process threads: spawned, and past their first line
    disk,            \* what the pipeline has left: mosaics, pyramids
    \* ---- run_full_pipeline and cancel_pipeline
    registry,        \* _active_pipelines[viewport]: registered, cancelled, process
    pipe,            \* where run_full_pipeline stands and what it returned
    lateLaunches     \* scripts started by Popen while cancelled was set

indexVars == <<mosaic, faissDir, indexFile, embFile, coordsFile, metaFile,
               faissDataCache, resp>>

tileVars == <<tileFiles, readers, tileResp>>

winVars == <<winReq, winTile>>

pyrVars == <<rgbFile, pyrDir, pyrLevels, pyrMeta, build, pyrResp>>

shapeVars == <<imgSource, imgLevels, rgbLevels>>

relVars == <<relReq, relResp>>

zoomVars == <<zoomCalls>>

boundsVars == <<vpMetadata, backendResp>>

poolVars == <<rawEmbeddings, coarseLevels>>

replayVars == <<relLast, relEarlier>>

bboxVars == <<bboxReq, bboxCall>>

stageVars == <<yearMosaic, yearFaiss, stageResp>>

pollVars == <<created, tasks, pollPc, runs, disk>>

cancelVars == <<registry, pipe, lateLaunches>>

vars == <<indexVars, tileVars, winVars, pyrVars, shapeVars, relVars,
          zoomVars, boundsVars, poolVars, replayVars, bboxVars, stageVars,
          pollVars, cancelVars>>

\* everything but the index artifacts and their readers
nonIndexVars == <<tileVars, winVars, pyrVars, shapeVars, relVars, zoomVars,
                  boundsVars, poolVars, replayVars, bboxVars, stageVars,
                  pollVars, cancelVars>>

\* everything but the tile server
nonTileVars == <<indexVars, winVars, pyrVars, shapeVars, relVars, zoomVars,
                 boundsVars, poolVars, replayVars, bboxVars, stageVars,
                 pollVars, cancelVars>>

\* everything but the window arithmetic
nonWinVars == <<indexVars, tileVars, pyrVars, shapeVars, relVars, zoomVars,
                boundsVars, poolVars, replayVars, bboxVars, stageVars,
                pollVars, cancelVars>>

\* everything but the pyramid builder
nonPyrVars == <<indexVars, tileVars, winVars, shapeVars, relVars, zoomVars,
                boundsVars, poolVars, replayVars, bboxVars, stageVars,
                pollVars, cancelVars>>

\* everything but the level dimensions
nonShapeVars == <<indexVars, tileVars, winVars, pyrVars, relVars, zoomVars,
                  boundsVars, poolVars, replayVars, bboxVars, stageVars,
                  pollVars, cancelVars>>

\* everything but the relabel request
nonRelVars == <<indexVars, tileVars, winVars, pyrVars, shapeVars, zoomVars,
                boundsVars, poolVars, replayVars, bboxVars, stageVars,
                pollVars, cancelVars>>

\* everything but the zoom-to-level calls
nonZoomVars == <<indexVars, tileVars, winVars, pyrVars, shapeVars, relVars,
                 boundsVars, poolVars, replayVars, bboxVars, stageVars,
                 pollVars, cancelVars>>

\* everything but the backend bounds endpoint
nonBoundsVars == <<indexVars, tileVars, winVars, pyrVars, shapeVars, relVars,
                   zoomVars, poolVars, replayVars, bboxVars, stageVars,
                   pollVars, cancelVars>>

\* everything but the coarsened embedding pyramid
nonPoolVars == <<indexVars, tileVars, winVars, pyrVars, shapeVars, relVars,
                 zoomVars, boundsVars, replayVars, bboxVars, stageVars,
                 pollVars, cancelVars>>

\* everything but the repeated relabel calls
nonReplayVars == <<indexVars, tileVars, winVars, pyrVars, shapeVars, relVars,
                   zoomVars, boundsVars, poolVars, bboxVars, stageVars,
                   pollVars, cancelVars>>

\* everything but the tile_to_bbox calls
nonBboxVars == <<indexVars, tileVars, winVars, pyrVars, shapeVars, relVars,
                 zoomVars, boundsVars, poolVars, replayVars, stageVars,
                 pollVars, cancelVars>>

\* everything but stage 4 of the pipeline
nonStageVars == <<indexVars, tileVars, winVars, pyrVars, shapeVars, relVars,
                  zoomVars, boundsVars, poolVars, replayVars, bboxVars,
                  pollVars, cancelVars>>

\* everything but the polls and pipeline threads
nonPollVars == <<indexVars, tileVars, winVars, pyrVars, shapeVars, relVars,
                 zoomVars, boundsVars, poolVars, replayVars, bboxVars,
                 stageVars, cancelVars>>

\* everything but the pipeline run and its cancellation
nonCancelVars == <<indexVars, tileVars, winVars, pyrVars, shapeVars, relVars,
                   zoomVars, boundsVars, poolVars, replayVars, bboxVars,
                   stageVars, pollVars>>

(***************************************************************************)
(* Bounds                                                                  *)
(***************************************************************************)
\* modelled length of an embedding vector (EMBEDDING_DIM is 128 in the code)
EMBEDDING_DIM == 2
\* largest number of stored vectors
MaxVecs == 3
\* modelled result cap (MAX_RESULTS is 250000 in the code)
MAX_RESULTS == 2
\* largest in-range threshold tried
MaxThreshold == 1

\* upper limit of the accepted threshold range
THRESHOLD_LIMIT == 50

\* pixel_min_x, pixel_min_y of the clipped region of the modelled mosaic
REGION_X0 == 3
REGION_Y0 == 7

(***************************************************************************)
(* Values                                                                  *)
(***************************************************************************)
\* modelled vectors: the zero vector and the unit vectors
VectorsOfLen(n) ==
    {v \in [1..n -> {0, 1}] : Cardinality({i \in 1..n : v[i] # 0}) <= 1}

Vectors == VectorsOfLen(EMBEDDING_DIM)

ZeroVector == [i \in 1..EMBEDDING_DIM |-> 0]

MatricesOfLen(n) == [1..n -> Vectors]

Matrices == UNION {MatricesOfLen(n) : n \in 1..MaxVecs}

\* affine geotransforms a mosaic can carry (a, b, c, d, e, f)
GeoTransforms ==
    { [a |-> 2, b |-> 0, c |-> 10, d |-> 0, e |-> -2, f |-> 50],
      [a |-> 3, b |-> 1, c |-> 20, d |-> 1, e |-> -3, f |-> 70] }

NoGT == [a |-> 0, b |-> 0, c |-> 0, d |-> 0, e |-> 0, f |-> 0]

Absent == "absent"
Corrupt == "corrupt"
Ok == "ok"

NoMosaic == [kind |-> Absent, data |-> <<>>, gt |-> NoGT]
NoEmb == [kind |-> Absent, data |-> <<>>]
NoCoords == [kind |-> Absent, data |-> <<>>]
NoMeta == [kind |-> Absent, gt |-> NoGT]
NoCache == [present |-> FALSE, embeddings |-> <<>>, coords |-> <<>>, gt |-> NoGT]
NoResp == [op |-> "none"]

\* no window read, and a tile that carries no image
NoWindow == [col_off |-> 0, row_off |-> 0, width |-> 0, height |-> 0]
NoTile == [mode |-> "none", size |-> 0, transparent |-> FALSE,
           width |-> 0, height |-> 0, read |-> NoWindow, pixels |-> <<>>]
NoTileResp == [op |-> "none", viewport |-> "", map_id |-> "", z |-> 0,
               status |-> 0, cause |-> "none", path |-> "", tile |-> NoTile,
               touched |-> {}]
NoWinReq == [W |-> 0, H |-> 0, col_off |-> 0, row_off |-> 0,
             width |-> 0, height |-> 0]

\* the tile server has just been started over an empty pyramids directory
IdleTile == tileFiles = {} /\ readers = <<>> /\ tileResp = NoTileResp

IdleWin == winReq = NoWinReq /\ winTile = NoTile

\* number of entries of PYRAMID_FACTORS
NUM_PYRAMID_FACTORS == 5

NoLevel == [kind |-> Absent, from |-> 0]
NoPyrMeta == [kind |-> Absent, source_mtime |-> 0, levels |-> 0]
NoBuild == [pc |-> "idle", num_levels |-> 0, level_idx |-> 0,
            source_mtime |-> 0]
NoPyrResp == [op |-> "none", num_levels |-> 0, check_cache |-> FALSE,
              kind |-> "none", success |-> FALSE, info |-> NoPyrMeta]

\* no source file, no output directory, no call made
IdlePyr ==
    /\ rgbFile = [exists |-> FALSE, mtime |-> 0]
    /\ pyrDir = FALSE
    /\ pyrLevels = [k \in 0..(NUM_PYRAMID_FACTORS - 1) |-> NoLevel]
    /\ pyrMeta = NoPyrMeta
    /\ build = NoBuild
    /\ pyrResp = NoPyrResp

\* no source raster opened, no level written
NoTransform == [a |-> [num |-> 0, den |-> 1], e |-> [num |-> 0, den |-> 1],
                c |-> [num |-> 0, den |-> 1], f |-> [num |-> 0, den |-> 1]]

IdleShape ==
    /\ imgSource = [width |-> 0, height |-> 0, transform |-> NoTransform]
    /\ imgLevels = <<>>
    /\ rgbLevels = <<>>

\* no relabel request made
NoRelReq == [label_embeddings |-> <<>>, labeled_pixels |-> <<>>]
NoRelResp == [op |-> "none", status |-> 0, success |-> FALSE,
              has_relabeled |-> FALSE, relabeled |-> <<>>,
              relabel_count |-> 0, total_pixels |-> 0,
              unchanged_pixels |-> 0, error |-> ""]

IdleRel == relReq = NoRelReq /\ relResp = NoRelResp

\* no zoom has been mapped
IdleZoom == zoomCalls = <<>>

\* no viewport metadata, get_tile_bounds not called
NoBackendResp == [op |-> "none", status |-> 0, has_bounds |-> FALSE,
                  bounds |-> "none"]

IdleBounds == vpMetadata = "absent" /\ backendResp = NoBackendResp

\* no raw embeddings loaded, no coarsened level written
NoGrid == [height |-> 0, width |-> 0, dims |-> 0, has_data |-> FALSE,
           data |-> <<>>]

IdlePool == rawEmbeddings = NoGrid /\ coarseLevels = <<>>

\* the server has answered no relabel request yet
NoCall == [req |-> NoRelReq, resp |-> NoRelResp]

IdleReplay == relLast = NoCall /\ relEarlier = NoCall

\* tile_to_bbox not called
NoBboxReq == [x |-> 0, y |-> 0, z |-> 0]

NoBboxCall == [op |-> "none"]

IdleBbox == bboxReq = NoBboxReq /\ bboxCall = NoBboxCall

\* the years a viewport is processed for
StageYears == {2023, 2024}

NoYearFaiss == [dir |-> FALSE, files |-> [k \in 1..4 |-> Absent]]

NoStageResp == [op |-> "none", ok |-> FALSE, error |-> "", deleted |-> {},
                failed |-> {}]

IdleStage ==
    /\ yearMosaic = [y \in StageYears |-> <<>>]
    /\ yearFaiss = [y \in StageYears |-> NoYearFaiss]
    /\ stageResp = NoStageResp

\* no viewport, no task, no request under way, no pipeline thread
NoRuns == [spawned |-> 0, running |-> 0]

NoDisk == [mosaics |-> FALSE, pyramids |-> FALSE]

Pollers == {"poll1", "poll2"}

IdlePoll ==
    /\ created = FALSE
    /\ tasks = "none"
    /\ pollPc = [p \in Pollers |-> "idle"]
    /\ runs = NoRuns
    /\ disk = NoDisk

\* no pipeline registered, run_full_pipeline not called
NoRegistry == [registered |-> FALSE, cancelled |-> FALSE, process |-> "none"]

NoPipe == [pc |-> "idle", script |-> 0, result |-> "none"]

IdleCancel ==
    /\ registry = NoRegistry
    /\ pipe = NoPipe
    /\ lateLaunches = {}

\* no mosaic, no index artifact, no request made
IdleIndex ==
    /\ mosaic = NoMosaic /\ faissDir = FALSE /\ indexFile = Absent
    /\ embFile = NoEmb /\ coordsFile = NoCoords /\ metaFile = NoMeta
    /\ faissDataCache = NoCache /\ resp = NoResp

\* viewport names: one with data on disk, one without, one that is not a
\* legal name
DataViewport == "vp"
Viewports == {"vp", "empty_vp", "../etc"}

\* lib.viewport_utils.validate_viewport_name: raises ValueError for a name
\* that is not a plain identifier
validate_viewport_name(name) == name \in {"vp", "empty_vp"}

(***************************************************************************)
(* Helpers                                                                 *)
(***************************************************************************)
RECURSIVE SumSq(_, _, _)
SumSq(a, b, n) ==
    IF n = 0 THEN 0
    ELSE (a[n] - b[n]) * (a[n] - b[n]) + SumSq(a, b, n - 1)

\* np.sum(diff ** 2, axis=1) for one row (the square of the L2 distance)
Dist2(a, b) == SumSq(a, b, Len(a))

Min(S) == CHOOSE x \in S : \A y \in S : x <= y
Max(S) == CHOOSE x \in S : \A y \in S : x >= y

\* the elements of a set of integers in increasing order (np.where)
RECURSIVE AscSeq(_)
AscSeq(S) == IF S = {} THEN <<>> ELSE <<Min(S)>> \o AscSeq(S \ {Min(S)})

\* np.argsort (quicksort, not stable): every ordering of S by
\* non-decreasing key; the order among equal keys is not determined
RECURSIVE SortedOrders(_, _)
SortedOrders(S, key) ==
    IF S = {} THEN {<<>>}
    ELSE UNION { { <<i>> \o t : t \in SortedOrders(S \ {i}, key) } :
                 i \in {j \in S : \A k \in S : key[j] <= key[k]} }

\* width of the clipped region of a mosaic of n pixels: two rows when n is
\* even, one row otherwise
RegionWidth(n) == IF n % 2 = 0 THEN n \div 2 ELSE n

\* pixel_coords: (x, y) of every pixel of the clipped region, row by row
\* (create_faiss_index_for_year, the loops over y and x)
RegionCoords(n) ==
    [k \in 1..n |-> <<REGION_X0 + ((k - 1) % RegionWidth(n)),
                      REGION_Y0 + ((k - 1) \div RegionWidth(n))>>]

(***************************************************************************)
(* api_search_similar_embeddings                                           *)
(***************************************************************************)
\* a filter that drops the vectors exactly at the threshold
WithinThresholdStrict(d2, threshold) ==
    {i \in DOMAIN d2 : d2[i] < threshold * threshold}

\* np.where(distances <= threshold)[0]
WithinThreshold(d2, threshold) ==
    {i \in DOMAIN d2 : d2[i] <= threshold * threshold}

\* the orders in which the matching indices can be walked: index order, or,
\* above the cap, the MAX_RESULTS nearest in distance order
SimilarIndices(d2, threshold) ==
    LET similar == WithinThreshold(d2, threshold) IN
    IF Cardinality(similar) > MAX_RESULTS
    THEN {SubSeq(s, 1, MAX_RESULTS) : s \in SortedOrders(similar, d2)}
    ELSE {AscSeq(similar)}

\* one entry of matches
MatchOf(idx, d2, coords, gt) ==
    [lat      |-> gt.f + coords[idx][2] * gt.e,
     lon      |-> gt.c + coords[idx][1] * gt.a,
     distance |-> d2[idx],
     pixel    |-> coords[idx]]

\* the three files the endpoint loads, in the order it loads them
SearchArtifacts == {"all_embeddings.npy", "pixel_coords.npy", "metadata.json"}

NoStats == [k \in {} |-> 0]

\* an error response; loaded: the artifact files the request tried to load,
\* distances: whether it computed the distance array
SearchError(req, code, loaded, distances) ==
    [op |-> "search", req |-> req, status |-> code, matches |-> <<>>,
     query_stats |-> NoStats, loaded |-> loaded, distances |-> distances]

\* query_stats of a successful response (the clock behind
\* computation_time_ms is not modelled, the field is kept)
QueryStats(all_embeddings, matches, threshold) ==
    [total_pixels |-> Len(all_embeddings),
     matches_found |-> Len(matches),
     computation_time_ms |-> 0,
     threshold |-> threshold]

\* a request that is turned down on its embedding size alone
SearchRejectedBySizeOnly(req) == Len(req.embedding) # EMBEDDING_DIM

\* validate_viewport_name raises ValueError, or the embedding has not the
\* expected size: both answered 400
SearchRejected(req) ==
    ~validate_viewport_name(req.viewport)
    \/ Len(req.embedding) # EMBEDDING_DIM

\* the answers the endpoint can give to req on the current disk state
SearchAnswers(req) ==
    IF SearchRejected(req) THEN {SearchError(req, 400, {}, FALSE)}
    ELSE IF ~(0 <= req.threshold /\ req.threshold <= THRESHOLD_LIMIT)
         THEN {SearchError(req, 400, {}, FALSE)}
    ELSE IF ~(req.viewport = DataViewport /\ faissDir)
         THEN {SearchError(req, 404, {}, FALSE)}
    ELSE IF embFile.kind # Ok
         THEN {SearchError(req, 500, {"all_embeddings.npy"}, FALSE)}
    ELSE IF coordsFile.kind # Ok
         THEN {SearchError(req, 500,
                           {"all_embeddings.npy", "pixel_coords.npy"}, FALSE)}
    ELSE IF metaFile.kind # Ok
         THEN {SearchError(req, 500, SearchArtifacts, FALSE)}
    ELSE
      LET emb == embFile.data
          coords == coordsFile.data
          d2 == [i \in 1..Len(emb) |-> Dist2(emb[i], req.embedding)]
      IN { IF \E k \in 1..Len(sim) : sim[k] > Len(coords)
           THEN SearchError(req, 500, SearchArtifacts, TRUE)
           ELSE LET matches == [k \in 1..Len(sim) |->
                                   MatchOf(sim[k], d2, coords, metaFile.gt)]
                IN [op |-> "search", req |-> req, status |-> 200,
                    matches |-> matches,
                    query_stats |-> QueryStats(emb, matches, req.threshold),
                    loaded |-> SearchArtifacts, distances |-> TRUE]
           : sim \in SimilarIndices(d2, req.threshold) }

\* request bodies tried: every in-range query against the viewport that has
\* data, and one request of each rejected kind
SearchRequests ==
    { [viewport |-> DataViewport, embedding |-> q, threshold |-> t] :
        q \in Vectors, t \in 0..MaxThreshold }
    \cup { [viewport |-> v, embedding |-> ZeroVector, threshold |-> 1] :
             v \in Viewports }
    \cup { [viewport |-> DataViewport, embedding |-> <<1>>, threshold |-> 1],
           [viewport |-> DataViewport, embedding |-> ZeroVector,
            threshold |-> THRESHOLD_LIMIT + 1] }

Search ==
    /\ UNCHANGED nonIndexVars
    /\ \E req \in SearchRequests :
         \E answer \in SearchAnswers(req) :
           /\ resp' = answer
           /\ UNCHANGED <<mosaic, faissDir, indexFile, embFile, coordsFile,
                          metaFile, faissDataCache>>

(***************************************************************************)
(* Specification of the search endpoint over a complete index              *)
(***************************************************************************)
InitSearch ==
    /\ IdleTile /\ IdleWin /\ IdlePyr /\ IdleShape /\ IdleRel /\ IdleZoom /\ IdleBounds /\ IdlePool /\ IdleReplay /\ IdleBbox /\ IdleStage /\ IdlePoll /\ IdleCancel
    /\ mosaic = NoMosaic
    /\ faissDir = TRUE
    /\ indexFile = Ok
    /\ \E m \in Matrices :
         /\ embFile = [kind |-> Ok, data |-> m]
         /\ coordsFile = [kind |-> Ok, data |-> RegionCoords(Len(m))]
    /\ \E g \in GeoTransforms : metaFile = [kind |-> Ok, gt |-> g]
    /\ faissDataCache = NoCache
    /\ resp = NoResp

NextSearch == Search

SpecSearch == InitSearch /\ [][NextSearch]_vars

\* ---- properties of the search endpoint (disk state as read by the request)
SearchAccepted ==
    /\ resp.op = "search"
    /\ resp.req.viewport = DataViewport
    /\ Len(resp.req.embedding) = EMBEDDING_DIM
    /\ 0 <= resp.req.threshold /\ resp.req.threshold <= THRESHOLD_LIMIT

\* indices of the stored vectors whose L2 distance to the query is <= T
TrueMatches ==
    {i \in 1..Len(embFile.data) :
        Dist2(embFile.data[i], resp.req.embedding)
            <= resp.req.threshold * resp.req.threshold}

IsMatchFor(m, i) ==
    /\ m.pixel = coordsFile.data[i]
    /\ m.distance = Dist2(embFile.data[i], resp.req.embedding)

\* C1: when the number of vectors within the threshold does not exceed the
\* result cap, a valid search returns exactly one match for each stored
\* vector whose L2 distance to the query is <= T and no other match, each
\* match carrying that vector's pixel coordinate and its distance.
C1_SearchReturnsExactlyWithinThreshold ==
    (SearchAccepted /\ Cardinality(TrueMatches) <= MAX_RESULTS) =>
        /\ resp.status = 200
        /\ Len(resp.matches) = Cardinality(TrueMatches)
        /\ \A i \in TrueMatches :
              Cardinality({k \in 1..Len(resp.matches) :
                              IsMatchFor(resp.matches[k], i)}) = 1
        /\ \A k \in 1..Len(resp.matches) :
              \E i \in TrueMatches : IsMatchFor(resp.matches[k], i)

\* a search with threshold 0 over MaxVecs stored vectors of which exactly one
\* equals the query has answered with exactly one match, at distance 0
C1_Witness ==
    /\ SearchAccepted
    /\ resp.req.threshold = 0
    /\ Len(embFile.data) = MaxVecs
    /\ Cardinality({i \in 1..Len(embFile.data) :
                       embFile.data[i] = resp.req.embedding}) = 1
    /\ resp.status = 200
    /\ Len(resp.matches) = 1
    /\ resp.matches[1].distance = 0

SearchStatNames ==
    {"total_pixels", "matches_found", "min_distance", "max_distance",
     "mean_distance", "median_distance", "computation_time_ms"}

\* C18: the query statistics of a successful search carry the number of
\* vectors considered, the number matched, the minimum, maximum, mean and
\* median distance and the elapsed time; considered is the number of stored
\* vectors, matched the number of returned matches, and the minimum the
\* smallest distance from the query to a stored vector.
C18_ResponseCarriesDistanceStatistics ==
    (resp.op = "search" /\ resp.status = 200) =>
        /\ SearchStatNames \subseteq DOMAIN resp.query_stats
        /\ resp.query_stats.total_pixels = Len(embFile.data)
        /\ resp.query_stats.matches_found = Len(resp.matches)
        /\ resp.query_stats.min_distance =
              Min({Dist2(embFile.data[i], resp.req.embedding) :
                     i \in 1..Len(embFile.data)})

\* C19: every match carries the position the full affine geotransform of
\* the index gives its pixel: lon = c + a*px + b*py, lat = f + d*px + e*py.
C19_MatchUsesFullAffine ==
    (resp.op = "search" /\ resp.status = 200) =>
        \A k \in 1..Len(resp.matches) :
            LET m == resp.matches[k]
                gt == metaFile.gt
                px == m.pixel[1]
                py == m.pixel[2]
            IN /\ m.lon = gt.c + gt.a * px + gt.b * py
               /\ m.lat = gt.f + gt.d * px + gt.e * py

MinOf(a, b) == IF a <= b THEN a ELSE b

\* C2: the matches list equals the first min(cap, m) entries of the m
\* within-threshold vectors sorted by non-decreasing distance: it is in
\* distance order whether or not the cap is reached, and no returned match
\* is farther than a dropped one.
C2_MatchesSortedThenTruncated ==
    (SearchAccepted /\ resp.status = 200) =>
        /\ Len(resp.matches) = MinOf(MAX_RESULTS, Cardinality(TrueMatches))
        /\ \A k, l \in 1..Len(resp.matches) :
              k < l => resp.matches[k].distance <= resp.matches[l].distance
        /\ \A k \in 1..Len(resp.matches) :
              \A i \in TrueMatches :
                 (\A l \in 1..Len(resp.matches) : ~IsMatchFor(resp.matches[l], i))
                    => resp.matches[k].distance
                          <= Dist2(embFile.data[i], resp.req.embedding)

(***************************************************************************)
(* create_faiss_index_for_year                                             *)
(***************************************************************************)
\* np.count_nonzero(all_embeddings) == 0
AllZero(m) == \A i \in 1..Len(m) : \A j \in 1..Len(m[i]) : m[i][j] = 0

\* One run of the build writes embeddings.index, all_embeddings.npy,
\* pixel_coords.npy and metadata.json in this order (artifacts 1..4).  A run
\* ends after `written` complete artifacts; `torn` says that it raised in
\* the middle of writing the next one, which leaves a truncated file.
BuildOutcomes ==
    {[written |-> w, torn |-> t] :
        w \in 0..4, t \in BOOLEAN} \ {[written |-> 4, torn |-> TRUE]}

\* the run returns False at the all-zero check, which sits after the write
\* of embeddings.index and before the write of all_embeddings.npy
StopsAtZeroCheck(m, out) ==
    AllZero(m) => (out.written = 0 \/ (out.written = 1 /\ ~out.torn))

\* kind of artifact k after the run
KindAfter(k, old, out) ==
    IF k <= out.written THEN Ok
    ELSE IF k = out.written + 1 /\ out.torn THEN Corrupt
    ELSE old

\* what the run returns and why: "ok" (True), or False because the mosaic is
\* missing, because the all-zero check fired, or because an exception was
\* caught
BuildResp(reason, zero) ==
    [op |-> "build", ok |-> reason = "ok", reason |-> reason, zero |-> zero]

BuildReason(m, out) ==
    IF out.written = 4 THEN "ok"
    ELSE IF AllZero(m) /\ out.written = 1 /\ ~out.torn THEN "all_zero"
    ELSE "exception"

BuildIndex ==
    /\ UNCHANGED nonIndexVars
    /\ IF mosaic.kind # Ok
       THEN /\ resp' = BuildResp("no_mosaic", FALSE)
            /\ UNCHANGED <<mosaic, faissDir, indexFile, embFile, coordsFile,
                           metaFile, faissDataCache>>
       ELSE \E out \in BuildOutcomes :
              /\ StopsAtZeroCheck(mosaic.data, out)
              /\ faissDir' = TRUE
              /\ indexFile' = KindAfter(1, indexFile, out)
              /\ embFile' =
                   IF out.written >= 2
                   THEN [kind |-> Ok, data |-> mosaic.data]
                   ELSE IF KindAfter(2, embFile.kind, out) = Corrupt
                   THEN [kind |-> Corrupt, data |-> <<>>]
                   ELSE embFile
              /\ coordsFile' =
                   IF out.written >= 3
                   THEN [kind |-> Ok, data |-> RegionCoords(Len(mosaic.data))]
                   ELSE IF KindAfter(3, coordsFile.kind, out) = Corrupt
                   THEN [kind |-> Corrupt, data |-> <<>>]
                   ELSE coordsFile
              /\ metaFile' =
                   IF out.written >= 4
                   THEN [kind |-> Ok, gt |-> mosaic.gt]
                   ELSE IF KindAfter(4, metaFile.kind, out) = Corrupt
                   THEN [kind |-> Corrupt, gt |-> NoGT]
                   ELSE metaFile
              /\ resp' = BuildResp(BuildReason(mosaic.data, out),
                                    AllZero(mosaic.data))
              /\ UNCHANGED <<mosaic, faissDataCache>>

(***************************************************************************)
(* external steps on the disk                                              *)
(***************************************************************************)
\* mosaics an index is built from in the index specification
IndexMosaics == MatricesOfLen(1)

\* stage 1 of the pipeline leaves a mosaic for the viewport and year
DownloadMosaic ==
    /\ UNCHANGED nonIndexVars
    /\ \E m \in IndexMosaics :
         mosaic' = [kind |-> Ok, data |-> m,
                    gt |-> CHOOSE g \in GeoTransforms : g.b = 0]
    /\ resp' = NoResp
    /\ UNCHANGED <<faissDir, indexFile, embFile, coordsFile, metaFile,
                   faissDataCache>>

\* api_delete_viewport: the mosaics and the FAISS directory of the viewport
\* are removed; the module-level caches are left alone
DeleteViewport ==
    /\ UNCHANGED nonIndexVars
    /\ mosaic' = NoMosaic
    /\ faissDir' = FALSE
    /\ indexFile' = Absent
    /\ embFile' = NoEmb
    /\ coordsFile' = NoCoords
    /\ metaFile' = NoMeta
    /\ resp' = NoResp
    /\ UNCHANGED faissDataCache

(***************************************************************************)
(* readers of the index artifacts                                          *)
(***************************************************************************)
Exists(kind) == kind # Absent

\* check_viewport_faiss_exist: some year directory holds embeddings.index
check_viewport_faiss_exist == faissDir /\ Exists(indexFile)

CheckFaissExist ==
    /\ UNCHANGED nonIndexVars
    /\ resp' = [op |-> "check_faiss", present |-> check_viewport_faiss_exist]
    /\ UNCHANGED <<mosaic, faissDir, indexFile, embFile, coordsFile,
                   metaFile, faissDataCache>>

\* api_is_viewport_ready, the part that reports on the embeddings
IsReady ==
    /\ UNCHANGED nonIndexVars
    /\ \E v \in Viewports :
         resp' =
           IF ~validate_viewport_name(v)
           THEN [op |-> "is_ready", viewport |-> v, status |-> 400,
                 has_faiss |-> FALSE, has_embeddings |-> FALSE]
           ELSE LET has_faiss == v = DataViewport /\ faissDir /\ Exists(indexFile)
                    has_mosaics == v = DataViewport /\ mosaic.kind # Absent
                IN [op |-> "is_ready", viewport |-> v, status |-> 200,
                    has_faiss |-> has_faiss,
                    has_embeddings |-> has_faiss \/ has_mosaics]
    /\ UNCHANGED <<mosaic, faissDir, indexFile, embFile, coordsFile,
                   metaFile, faissDataCache>>

\* int(n / d) of Python for integers n, d: the quotient truncated towards 0
TruncDiv(n, d) ==
    LET an == IF n < 0 THEN -n ELSE n
        ad == IF d < 0 THEN -d ELSE d
    IN IF (n < 0) = (d < 0) THEN an \div ad ELSE -(an \div ad)

\* pixel_lookup[(x, y)]: a later row of pixel_coords overwrites an earlier one
PixelLookup(coords, p) == Max({i \in 1..Len(coords) : coords[i] = p})

InLookup(coords, p) == \E i \in 1..Len(coords) : coords[i] = p

\* the (dx, dy) tried around a pixel that is not in the lookup, in the order
\* of the two loops over [-1, 0, 1]
NeighbourOffsets == [k \in 1..9 |-> <<((k - 1) \div 3) - 1, ((k - 1) % 3) - 1>>]

ExtractResp(code, emb, pixel) ==
    [op |-> "extract", status |-> code, embedding |-> emb, pixel |-> pixel]

\* api_extract_embedding once get_faiss_data has returned `data`
ExtractFrom(data, lon, lat) ==
    LET x == TruncDiv(lon - data.gt.c, data.gt.a)
        y == TruncDiv(lat - data.gt.f, data.gt.e)
        hits == {k \in 1..9 :
                   InLookup(data.coords, <<x + NeighbourOffsets[k][1],
                                           y + NeighbourOffsets[k][2]>>)}
        p == IF InLookup(data.coords, <<x, y>>) THEN <<x, y>>
             ELSE <<x + NeighbourOffsets[Min(hits)][1],
                    y + NeighbourOffsets[Min(hits)][2]>>
    IN IF ~InLookup(data.coords, <<x, y>>) /\ hits = {}
       THEN ExtractResp(400, <<>>, <<x, y>>)
       ELSE IF PixelLookup(data.coords, p) > Len(data.embeddings)
       THEN ExtractResp(500, <<>>, p)
       ELSE ExtractResp(200, data.embeddings[PixelLookup(data.coords, p)], p)

\* coordinates asked for: the first pixel of the region under either
\* geotransform, its right-hand neighbour, and a point far away
ExtractPoints ==
    { [lon |-> g.c + g.a * x, lat |-> g.f + g.e * REGION_Y0] :
        g \in GeoTransforms, x \in {REGION_X0, REGION_X0 + 1} }
    \cup { [lon |-> 0, lat |-> 0] }

\* api_extract_embedding with get_faiss_data for the active viewport
Extract ==
    /\ UNCHANGED nonIndexVars
    /\ \E pt \in ExtractPoints :
         IF faissDataCache.present
         THEN /\ resp' = ExtractFrom(faissDataCache, pt.lon, pt.lat)
              /\ UNCHANGED <<mosaic, faissDir, indexFile, embFile, coordsFile,
                             metaFile, faissDataCache>>
         ELSE IF ~(faissDir /\ Exists(embFile.kind) /\ Exists(coordsFile.kind)
                            /\ Exists(metaFile.kind))
         THEN /\ resp' = ExtractResp(404, <<>>, <<0, 0>>)
              /\ UNCHANGED <<mosaic, faissDir, indexFile, embFile, coordsFile,
                             metaFile, faissDataCache>>
         ELSE IF embFile.kind # Ok \/ coordsFile.kind # Ok \/ metaFile.kind # Ok
         THEN \* np.load / json.load raise: a ValueError is answered 400, any
              \* other exception 500
              /\ \E code \in {400, 500} : resp' = ExtractResp(code, <<>>, <<0, 0>>)
              /\ UNCHANGED <<mosaic, faissDir, indexFile, embFile, coordsFile,
                             metaFile, faissDataCache>>
         ELSE /\ faissDataCache' = [present |-> TRUE, embeddings |-> embFile.data,
                                    coords |-> coordsFile.data, gt |-> metaFile.gt]
              /\ resp' = ExtractFrom(faissDataCache', pt.lon, pt.lat)
              /\ UNCHANGED <<mosaic, faissDir, indexFile, embFile, coordsFile,
                             metaFile>>

(***************************************************************************)
(* Specification of the index artifacts: builds, deletions and readers     *)
(***************************************************************************)
InitIndex ==
    /\ IdleTile /\ IdleWin /\ IdlePyr /\ IdleShape /\ IdleRel /\ IdleZoom /\ IdleBounds /\ IdlePool /\ IdleReplay /\ IdleBbox /\ IdleStage /\ IdlePoll /\ IdleCancel
    /\ mosaic = NoMosaic
    /\ faissDir = FALSE
    /\ indexFile = Absent
    /\ embFile = NoEmb
    /\ coordsFile = NoCoords
    /\ metaFile = NoMeta
    /\ faissDataCache = NoCache
    /\ resp = NoResp

NextIndex ==
    \/ DownloadMosaic
    \/ BuildIndex
    \/ DeleteViewport
    \/ CheckFaissExist
    \/ IsReady
    \/ Extract
    \/ Search

SpecIndex == InitIndex /\ [][NextIndex]_vars

\* ---- properties of the index artifact set
NoArtifactOnDisk ==
    /\ indexFile = Absent
    /\ embFile.kind = Absent
    /\ coordsFile.kind = Absent
    /\ metaFile.kind = Absent

AllArtifactsExist ==
    /\ faissDir
    /\ Exists(indexFile)
    /\ Exists(embFile.kind)
    /\ Exists(coordsFile.kind)
    /\ Exists(metaFile.kind)

\* C9: a build whose clipped embedding matrix is entirely zero detects it,
\* reports failure, and leaves none of embeddings.index, all_embeddings.npy,
\* pixel_coords.npy, metadata.json on disk, so that no reader later sees an
\* index for the (viewport, year).
C9_AllZeroBuildLeavesNoArtifact ==
    (resp.op = "build" /\ resp.reason = "all_zero") =>
        /\ ~resp.ok
        /\ NoArtifactOnDisk
        /\ ~check_viewport_faiss_exist

\* C10: every reader of the artifact set treats the index as present only if
\* all four artifacts exist; if any one is missing the set is reported as
\* missing / not found, never as present and never as an internal error.
C10_ReadersTreatSetAsAllOrNothing ==
    /\ resp.op = "check_faiss" => (resp.present => AllArtifactsExist)
    /\ (resp.op = "is_ready" /\ resp.viewport = DataViewport)
          => (resp.has_faiss => AllArtifactsExist)
    /\ resp.op = "extract" => (~AllArtifactsExist => resp.status = 404)
    /\ SearchAccepted => (~AllArtifactsExist => resp.status = 404)

\* C23: an embedding lookup that is answered with a vector reflects the
\* index artifacts on disk at that time: the three artifacts it reads are
\* there, and the vector is the one all_embeddings.npy holds for the
\* answered pixel, the vector the search endpoint uses for that pixel.
C23_LookupReflectsDisk ==
    (resp.op = "extract" /\ resp.status = 200) =>
        /\ faissDir
        /\ embFile.kind = Ok /\ coordsFile.kind = Ok /\ metaFile.kind = Ok
        /\ InLookup(coordsFile.data, resp.pixel)
        /\ resp.embedding =
              embFile.data[PixelLookup(coordsFile.data, resp.pixel)]

(***************************************************************************)
(* src/tile_server.py: the pixel window of get_tile                        *)
(***************************************************************************)
\* largest raster width and height tried
MaxRaster == 3
\* the requested window starts at most this far before the raster origin
MaxOff == 2
\* largest requested window width and height tried
MaxWin == 3

TILE_SIZE == 256

\* band 1 of the raster W pixels wide at column c, row r: every pixel has
\* its own non-zero value, so that a misplaced or padded pixel shows
RasterPixel(W, c, r) == 1 + r * W + c

\* Image.new('RGBA', (TILE_SIZE, TILE_SIZE), (0, 0, 0, 0))
TransparentTile ==
    [mode |-> "RGBA", size |-> TILE_SIZE, transparent |-> TRUE,
     width |-> 0, height |-> 0, read |-> NoWindow, pixels |-> <<>>]

\* a placement that ignores the part of the window before the raster origin
TileStartNoShift(off) == 0

\* tile_x_start, tile_y_start
TileStart(off) == Max({0, -off})

\* get_tile from the rounded window on: the clamped read, the zero-filled
\* buffer of the requested size, the placement of the read pixels and the
\* resize.  A slice assignment whose shapes differ raises, and the inner
\* handler answers that with the transparent tile.
WindowTile(W, H, col_off, row_off, width, height) ==
    IF width <= 0 \/ height <= 0 THEN TransparentTile
    ELSE
      LET read_col_off == Max({0, col_off})
          read_row_off == Max({0, row_off})
          read_col_end == Min({W, col_off + width})
          read_row_end == Min({H, row_off + height})
          read_width == read_col_end - read_col_off
          read_height == read_row_end - read_row_off
          tile_x_start == TileStart(col_off)
          tile_y_start == TileStart(row_off)
          \* the slice of full_data that is assigned to
          xs == {i \in 0..(width - 1) :
                   tile_x_start <= i /\ i < tile_x_start + read_width}
          ys == {j \in 0..(height - 1) :
                   tile_y_start <= j /\ j < tile_y_start + read_height}
          full_data ==
            [p \in (0..(width - 1)) \X (0..(height - 1)) |->
               IF p[1] \in xs /\ p[2] \in ys
               THEN RasterPixel(W, read_col_off + (p[1] - tile_x_start),
                                   read_row_off + (p[2] - tile_y_start))
               ELSE 0]
      IN IF read_width <= 0 \/ read_height <= 0 THEN TransparentTile
         ELSE IF Cardinality(xs) # read_width \/ Cardinality(ys) # read_height
         THEN TransparentTile
         ELSE [mode |-> "RGB", size |-> TILE_SIZE, transparent |-> FALSE,
               width |-> width, height |-> height,
               read |-> [col_off |-> read_col_off, row_off |-> read_row_off,
                         width |-> read_width, height |-> read_height],
               pixels |-> full_data]

\* the window arithmetic applied to the drawn raster size and window
ReadWindow ==
    /\ winTile = NoTile
    /\ winTile' = WindowTile(winReq.W, winReq.H, winReq.col_off,
                             winReq.row_off, winReq.width, winReq.height)
    /\ UNCHANGED winReq
    /\ UNCHANGED nonWinVars

InitWindow ==
    /\ IdleIndex /\ IdleTile /\ IdlePyr /\ IdleShape /\ IdleRel /\ IdleZoom /\ IdleBounds /\ IdlePool /\ IdleReplay /\ IdleBbox /\ IdleStage /\ IdlePoll /\ IdleCancel
    /\ winReq \in [W : 1..MaxRaster, H : 1..MaxRaster,
                   col_off : (-MaxOff)..MaxRaster,
                   row_off : (-MaxOff)..MaxRaster,
                   width : 0..MaxWin, height : 0..MaxWin]
    /\ winTile = NoTile

NextWindow == ReadWindow

SpecWindow == InitWindow /\ [][NextWindow]_vars

\* raster pixels (column, row) that the request and the raster share
WinIntersection ==
    {p \in (winReq.col_off..(winReq.col_off + winReq.width - 1))
           \X (winReq.row_off..(winReq.row_off + winReq.height - 1)) :
       /\ 0 <= p[1] /\ p[1] < winReq.W
       /\ 0 <= p[2] /\ p[2] < winReq.H}

\* raster pixels covered by the window that was read
WinRead ==
    (winTile.read.col_off..(winTile.read.col_off + winTile.read.width - 1))
    \X (winTile.read.row_off..(winTile.read.row_off + winTile.read.height - 1))

\* C4: for a requested integer window with width, height > 0 over a W x H
\* raster: an empty intersection with the raster gives the fully transparent
\* tile of the configured size; otherwise exactly the intersection is read
\* (nothing outside the raster), the buffer has the requested width and
\* height, buffer (i, j) holds raster (col_off + i, row_off + j) wherever that
\* pixel is in the raster and zero everywhere else, the read block sits at
\* (max(0, -col_off), max(0, -row_off)) and fits, and the result has the
\* fixed tile size.
C4_WindowClampedAndZeroPadded ==
    (winTile # NoTile /\ winReq.width > 0 /\ winReq.height > 0) =>
      IF WinIntersection = {}
      THEN winTile = TransparentTile
      ELSE /\ ~winTile.transparent
           /\ winTile.size = TILE_SIZE
           /\ WinRead = WinIntersection
           /\ winTile.width = winReq.width /\ winTile.height = winReq.height
           /\ Max({0, -winReq.col_off}) + winTile.read.width <= winReq.width
           /\ Max({0, -winReq.row_off}) + winTile.read.height <= winReq.height
           /\ \A i \in 0..(winReq.width - 1), j \in 0..(winReq.height - 1) :
                winTile.pixels[<<i, j>>] =
                  IF <<winReq.col_off + i, winReq.row_off + j>>
                        \in WinIntersection
                  THEN RasterPixel(winReq.W, winReq.col_off + i,
                                   winReq.row_off + j)
                  ELSE 0

\* a window that starts before the raster origin and ends past its far edge
\* in both directions has been served: the read block was shifted and the
\* rest of the buffer is padding
C4_Witness ==
    /\ winTile # NoTile /\ ~winTile.transparent
    /\ winReq.col_off < 0 /\ winReq.row_off < 0
    /\ winReq.col_off + winReq.width > winReq.W
    /\ winReq.row_off + winReq.height > winReq.H
    /\ winTile.pixels[<<0, 0>>] = 0
    /\ winTile.pixels[<<-winReq.col_off, -winReq.row_off>>]
         = RasterPixel(winReq.W, 0, 0)

(***************************************************************************)
(* src/tile_server.py: get_reader, tile_to_bbox, get_tile                  *)
(***************************************************************************)
\* width and height of the level rasters of the tile specification
TileRasterSize == 2

\* the coarsest pyramid level, and the zoom that maps to level 0
COARSEST_LEVEL == 5
BASE_ZOOM == 14

_VALID_MAP_IDS ==
    {"2017", "2018", "2019", "2020", "2021", "2022", "2023", "2024", "2025",
     "satellite", "rgb"}

\* map ids asked for: a year, the rgb layer, and one that is not allowed
TileMapIds == {"2024", "rgb", "bogus"}

\* viewports asked for
TileViewports == {DataViewport, "../etc"}

\* zoom levels asked for (the route accepts any non-negative integer)
TileZooms == {0, BASE_ZOOM, 1024}

\* tile rows asked for
TileRows == {0, 200}

\* the level get_reader would use without its two clamps
pyramid_level_unclamped(zoom_level) == (BASE_ZOOM - zoom_level) \div 2

\* pyramid_level = max(0, min(5, (14 - zoom_level) // 2))
pyramid_level(zoom_level) ==
    Max({0, Min({COARSEST_LEVEL, (BASE_ZOOM - zoom_level) \div 2})})

\* a key that leaves the map id out
ReaderKeyWithoutMap(viewport, map_id, level) ==
    viewport \o "_" \o ToString(level)

\* key = f"{viewport}_{map_id}_{pyramid_level}"
ReaderKey(viewport, map_id, level) ==
    viewport \o "_" \o map_id \o "_" \o ToString(level)

\* tif_path of get_reader
TifPath(viewport, map_id, level) ==
    LET dir == IF map_id = "satellite" THEN "satellite"
               ELSE IF map_id = "rgb" THEN "rgb/2024"
               ELSE map_id
    IN viewport \o "/" \o dir \o "/level_" \o ToString(level) \o ".tif"

\* readers after get_reader(viewport, map_id, zoom_level)
ReadersAfter(viewport, map_id, zoom_level) ==
    LET key == ReaderKey(viewport, map_id, pyramid_level(zoom_level))
        tif_path == TifPath(viewport, map_id, pyramid_level(zoom_level))
    IN IF key \notin DOMAIN readers /\ tif_path \in tileFiles
       THEN [k \in (DOMAIN readers) \cup {key} |->
               IF k = key THEN tif_path ELSE readers[k]]
       ELSE readers

\* what get_reader returns: the cached path, or "" for None
get_reader(viewport, map_id, zoom_level) ==
    LET key == ReaderKey(viewport, map_id, pyramid_level(zoom_level))
        after == ReadersAfter(viewport, map_id, zoom_level)
    IN IF key \in DOMAIN after THEN after[key] ELSE ""

RECURSIVE Pow2(_)
Pow2(z) == IF z = 0 THEN 1 ELSE 2 * Pow2(z - 1)

Abs(n) == IF n < 0 THEN -n ELSE n

\* math.sinh(math.pi * (1 - 2 * y / n)) raises OverflowError when the
\* argument is beyond +-710.4758, that is when |n - 2y| / n > 226.15
SinhRaises(y, n) == Abs(n - 2 * y) * 100 > 22615 * n

\* tile_to_bbox raises: 2.0 ** zoom overflows from zoom 1024 on, and the two
\* sinh calls overflow for rows far outside the 2^zoom rows of the grid
BboxRaises(x, y, zoom) ==
    IF zoom >= 1024 THEN TRUE
    ELSE SinhRaises(y, Pow2(zoom)) \/ SinhRaises(y + 1, Pow2(zoom))

\* the rounded windows rasterio's from_bounds gives for the tiles asked for:
\* the whole raster, one that overlaps its corner, one beside it, an empty one
TileWindows ==
    { [col_off |-> 0, row_off |-> 0,
       width |-> TileRasterSize, height |-> TileRasterSize],
      [col_off |-> -1, row_off |-> -1,
       width |-> TileRasterSize, height |-> TileRasterSize],
      [col_off |-> TileRasterSize, row_off |-> 0,
       width |-> TileRasterSize, height |-> TileRasterSize],
      [col_off |-> 0, row_off |-> 0, width |-> 0, height |-> 0] }

\* touched: the pyramid paths the request built, tested or opened
TileResp(viewport, map_id, z, status, cause, path, tile, touched) ==
    [op |-> "tile", viewport |-> viewport, map_id |-> map_id, z |-> z,
     status |-> status, cause |-> cause, path |-> path, tile |-> tile,
     touched |-> touched]

BoundsResp(viewport, map_id, status, cause, path, touched) ==
    [op |-> "bounds", viewport |-> viewport, map_id |-> map_id, z |-> 0,
     status |-> status, cause |-> cause, path |-> path, tile |-> NoTile,
     touched |-> touched]

\* the paths get_reader builds and tests: the level path when the key is
\* not cached yet
ReaderTouches(viewport, map_id, zoom_level) ==
    IF ReaderKey(viewport, map_id, pyramid_level(zoom_level))
          \in DOMAIN readers
    THEN {}
    ELSE {TifPath(viewport, map_id, pyramid_level(zoom_level))}

\* a request that is let through whatever its map_id is
RequestRejectedByViewportOnly(viewport, map_id) ==
    ~validate_viewport_name(viewport)

\* the two checks get_tile and get_bounds start with
RequestRejected(viewport, map_id) ==
    ~validate_viewport_name(viewport) \/ map_id \notin _VALID_MAP_IDS

\* get_tile(viewport, map_id, z, x, y)
GetTile ==
    /\ UNCHANGED nonTileVars
    /\ UNCHANGED tileFiles
    /\ \E viewport \in TileViewports, map_id \in TileMapIds,
          z \in TileZooms, x \in {0}, y \in TileRows :
         IF RequestRejected(viewport, map_id)
         THEN /\ tileResp' = TileResp(viewport, map_id, z, 400, "invalid",
                                      "", NoTile, {})
              /\ UNCHANGED readers
         ELSE
           /\ readers' = ReadersAfter(viewport, map_id, z)
           /\ LET tif_path == get_reader(viewport, map_id, z)
                  touched == ReaderTouches(viewport, map_id, z)
              IN IF tif_path = ""
                 THEN tileResp' = TileResp(viewport, map_id, z, 200,
                                           "missing", "", TransparentTile,
                                           touched)
                 ELSE IF BboxRaises(x, y, z)
                 THEN \* caught by the outer handler
                      tileResp' = TileResp(viewport, map_id, z, 500,
                                           "bbox_raised", tif_path, NoTile,
                                           touched)
                 ELSE
                   \* rasterio.open or src.read raise when the file is gone
                   \* and can raise on a file that is there (truncated file,
                   \* a band count that does not broadcast to 3)
                   \E raises \in BOOLEAN, w \in TileWindows :
                     IF raises \/ tif_path \notin tileFiles
                     THEN tileResp' = TileResp(viewport, map_id, z, 200,
                                               "read_raised", tif_path,
                                               TransparentTile,
                                               touched \cup {tif_path})
                     ELSE
                       LET tile == WindowTile(TileRasterSize, TileRasterSize,
                                              w.col_off, w.row_off,
                                              w.width, w.height)
                       IN tileResp' = TileResp(viewport, map_id, z, 200,
                                 IF tile.transparent THEN "empty_window"
                                 ELSE "image", tif_path, tile,
                                 touched \cup {tif_path})

\* get_bounds(viewport, map_id) of src/tile_server.py: the bounds of the
\* level-0 file; Reader(...) can raise on a file that is there
GetBounds ==
    /\ UNCHANGED nonTileVars
    /\ UNCHANGED <<tileFiles, readers>>
    /\ \E viewport \in TileViewports, map_id \in TileMapIds :
         IF RequestRejected(viewport, map_id)
         THEN tileResp' = BoundsResp(viewport, map_id, 400, "invalid", "", {})
         ELSE
           LET tif_path == TifPath(viewport, map_id, 0)
           IN IF tif_path \in tileFiles
              THEN \E raises \in BOOLEAN :
                     tileResp' =
                       IF raises
                       THEN BoundsResp(viewport, map_id, 500, "raised",
                                       tif_path, {tif_path})
                       ELSE BoundsResp(viewport, map_id, 200, "bounds",
                                       tif_path, {tif_path})
              ELSE tileResp' = BoundsResp(viewport, map_id, 404, "not_found",
                                          tif_path, {tif_path})

\* level files of the viewport's pyramids that builds write and deletions
\* remove
TilePaths ==
    {TifPath(DataViewport, m, l) : m \in {"2024", "rgb"},
                                   l \in {0, COARSEST_LEVEL}}

\* a pyramid build leaves a level file
CreateLevelFile ==
    /\ UNCHANGED nonTileVars
    /\ \E p \in TilePaths \ tileFiles : tileFiles' = tileFiles \cup {p}
    /\ tileResp' = NoTileResp
    /\ UNCHANGED readers

\* a deletion or a rebuild removes a level file; the running server keeps
\* its readers
RemoveLevelFile ==
    /\ UNCHANGED nonTileVars
    /\ \E p \in tileFiles : tileFiles' = tileFiles \ {p}
    /\ tileResp' = NoTileResp
    /\ UNCHANGED readers

InitTile == IdleIndex /\ IdleWin /\ IdlePyr /\ IdleShape /\ IdleTile /\ IdleRel /\ IdleZoom /\ IdleBounds /\ IdlePool /\ IdleReplay /\ IdleBbox /\ IdleStage /\ IdlePoll /\ IdleCancel

NextTile == GetTile \/ GetBounds \/ CreateLevelFile \/ RemoveLevelFile

SpecTile == InitTile /\ [][NextTile]_vars

\* C3: a tile request with a valid viewport and map_id is answered with
\* status 200 and an image of the configured tile size for every integer
\* (z, x, y); when the level file is missing, the window is empty or outside
\* the raster, or the bounding box computation or the open/read raised, the
\* image is the fully transparent tile.
C3_TileNeverErrors ==
    (/\ tileResp.op = "tile"
     /\ validate_viewport_name(tileResp.viewport)
     /\ tileResp.map_id \in _VALID_MAP_IDS) =>
        /\ tileResp.status = 200
        /\ tileResp.tile.size = TILE_SIZE
        /\ tileResp.cause \in {"missing", "empty_window", "bbox_raised",
                               "read_raised"}
             => tileResp.tile = TransparentTile

\* C14: a get_tile or get_bounds request whose viewport name is invalid or
\* whose map_id is not in the allow-list is answered 400, and the request
\* has built, tested or opened no pyramid path and left the reader cache as
\* it was.
C14_RejectedBeforeAnyPathOrCache ==
    [][(/\ tileResp'.op \in {"tile", "bounds"}
        /\ (~validate_viewport_name(tileResp'.viewport)
            \/ tileResp'.map_id \notin _VALID_MAP_IDS))
       => (/\ tileResp'.status = 400
           /\ tileResp'.path = ""
           /\ tileResp'.touched = {}
           /\ readers' = readers)]_vars

\* get_bounds has turned down a map_id outside the allow-list under a valid
\* viewport name while a level file and a cached reader were there
C14_Witness ==
    /\ tileResp.op = "bounds"
    /\ validate_viewport_name(tileResp.viewport)
    /\ tileResp.map_id \notin _VALID_MAP_IDS
    /\ tileResp.status = 400
    /\ tileFiles # {}
    /\ readers # <<>>

(***************************************************************************)
(* src/backend/processing/create_rgb_pyramids.py: create_rgb_pyramids      *)
(***************************************************************************)
\* largest mtime the source file reaches
MaxMtime == 2

\* num_levels asked for: the 1..6 of the build contract
NumLevelsAsked == 1..(NUM_PYRAMID_FACTORS + 1)

\* if num_levels < 1 or num_levels > 5: raise ValueError
NumLevelsRejected(num_levels) ==
    num_levels < 1 \/ num_levels > NUM_PYRAMID_FACTORS

\* if rgb_mtime <= cached_mtime
CacheFresh(rgb_mtime, cached_mtime) == rgb_mtime <= cached_mtime

\* a loop that is taken to be over after its first level
LoopOverAfterFirst(level_idx, num_levels) == level_idx >= 1

\* for level_idx in range(num_levels) has run out
LoopOver(level_idx, num_levels) == level_idx >= num_levels

PyrResp(num_levels, check_cache, kind, success, info) ==
    [op |-> "call", num_levels |-> num_levels, check_cache |-> check_cache,
     kind |-> kind, success |-> success, info |-> info]

\* the call up to the first level: the argument checks, mkdir, the cache
\* check, and pyramid_info with the source mtime read at this point.
\* callback_raises: a progress_callback was passed and raises when called.
CallBuild ==
    /\ UNCHANGED nonPyrVars
    /\ build.pc = "idle"
    /\ \E num_levels \in NumLevelsAsked, check_cache \in BOOLEAN,
          callback_raises \in BOOLEAN :
         IF ~rgbFile.exists
         THEN /\ pyrResp' = PyrResp(num_levels, check_cache,
                                    "FileNotFoundError", FALSE, NoPyrMeta)
              /\ UNCHANGED <<rgbFile, pyrDir, pyrLevels, pyrMeta, build>>
         ELSE IF NumLevelsRejected(num_levels)
         THEN /\ pyrResp' = PyrResp(num_levels, check_cache,
                                    "ValueError", FALSE, NoPyrMeta)
              /\ UNCHANGED <<rgbFile, pyrDir, pyrLevels, pyrMeta, build>>
         ELSE IF /\ check_cache
                 /\ pyrMeta.kind = Ok
                 /\ CacheFresh(rgbFile.mtime, pyrMeta.source_mtime)
                 /\ ~callback_raises
         THEN /\ pyrResp' = PyrResp(num_levels, check_cache,
                                    "cached", TRUE, pyrMeta)
              /\ pyrDir' = TRUE
              /\ UNCHANGED <<rgbFile, pyrLevels, pyrMeta, build>>
         ELSE \* no metadata, check_cache off, a stale cache, or an exception
              \* inside the cache check (json.load on a truncated metadata
              \* file, the progress_callback), which is logged and followed
              \* by a rebuild
              /\ pyrDir' = TRUE
              /\ build' = [pc |-> "levels", num_levels |-> num_levels,
                           level_idx |-> 0, source_mtime |-> rgbFile.mtime]
              /\ pyrResp' = PyrResp(num_levels, check_cache,
                                    "running", FALSE, NoPyrMeta)
              /\ UNCHANGED <<rgbFile, pyrLevels, pyrMeta>>

\* ways one resample_geotiff call can end: it returns; it raises before the
\* destination is opened; it raises after rasterio.open(dst_path, 'w') and
\* leaves a truncated file; it raises at dst_path.stat() after the write
LevelOutcomes == {"ok", "raised", "torn", "raised_after_write"}

\* one pass of the loop body: resample_geotiff for level level_idx
BuildLevel ==
    /\ UNCHANGED nonPyrVars
    /\ build.pc = "levels"
    /\ ~LoopOver(build.level_idx, build.num_levels)
    /\ \E out \in LevelOutcomes :
         /\ pyrLevels' =
              IF out = "raised" THEN pyrLevels
              ELSE [pyrLevels EXCEPT ![build.level_idx] =
                      IF out = "torn" THEN [kind |-> Corrupt, from |-> 0]
                      ELSE [kind |-> Ok, from |-> rgbFile.mtime]]
         /\ IF out = "ok"
            THEN /\ build' = [build EXCEPT !.level_idx = build.level_idx + 1]
                 /\ UNCHANGED pyrResp
            ELSE \* except Exception: return success False
                 /\ build' = NoBuild
                 /\ pyrResp' = [pyrResp EXCEPT !.kind = "failed"]
    /\ UNCHANGED <<rgbFile, pyrDir, pyrMeta>>

\* after the loop: json.dump(pyramid_info) into pyramid_metadata.json, which
\* can raise before the file is opened or leave it truncated; the
\* progress_callback that follows can raise after the file is complete
WriteMetadata ==
    /\ UNCHANGED nonPyrVars
    /\ build.pc = "levels"
    /\ LoopOver(build.level_idx, build.num_levels)
    /\ \E out \in {"ok", "raised", "torn", "raised_after_write"} :
         LET pyramid_info == [kind |-> Ok,
                              source_mtime |-> build.source_mtime,
                              levels |-> build.level_idx]
         IN /\ pyrMeta' = IF out \in {"ok", "raised_after_write"}
                          THEN pyramid_info
                          ELSE IF out = "torn"
                          THEN [kind |-> Corrupt, source_mtime |-> 0,
                                levels |-> 0]
                          ELSE pyrMeta
            /\ pyrResp' = IF out = "ok"
                          THEN [pyrResp EXCEPT !.kind = "built",
                                               !.success = TRUE,
                                               !.info = pyramid_info]
                          ELSE [pyrResp EXCEPT !.kind = "failed"]
    /\ build' = NoBuild
    /\ UNCHANGED <<rgbFile, pyrDir, pyrLevels>>

\* the source file is written, for the first time or again: its mtime
\* advances
UpdateSource ==
    /\ UNCHANGED nonPyrVars
    /\ rgbFile.mtime < MaxMtime
    /\ rgbFile' = [exists |-> TRUE, mtime |-> rgbFile.mtime + 1]
    /\ pyrResp' = IF build.pc = "idle" THEN NoPyrResp ELSE pyrResp
    /\ UNCHANGED <<pyrDir, pyrLevels, pyrMeta, build>>

InitPyramid == IdleIndex /\ IdleTile /\ IdleWin /\ IdleShape /\ IdlePyr /\ IdleRel /\ IdleZoom /\ IdleBounds /\ IdlePool /\ IdleReplay /\ IdleBbox /\ IdleStage /\ IdlePoll /\ IdleCancel

NextPyramid == CallBuild \/ BuildLevel \/ WriteMetadata \/ UpdateSource

SpecPyramid == InitPyramid /\ [][NextPyramid]_vars

\* ---- properties of create_rgb_pyramids
\* the step is a call of create_rgb_pyramids
IsCallStep == build.pc = "idle" /\ pyrResp'.op = "call"

\* the step is a pass of the level loop that ends the build
IsLevelFailure ==
    build.pc = "levels" /\ build.level_idx < build.num_levels
                        /\ build'.pc = "idle"

\* C5: within one build pyramid_metadata.json changes only in the last
\* step, when every requested level has been produced by this build; a call
\* with the source missing fails and writes nothing, not even the output
\* directory; a failing level ends the build with success False and leaves
\* the metadata file as it was.
C5_MetadataWrittenLast ==
    [][ /\ (pyrMeta' # pyrMeta) =>
             /\ build.pc = "levels"
             /\ build.level_idx = build.num_levels
             /\ \A k \in 0..(build.num_levels - 1) :
                  /\ pyrLevels[k].kind = Ok
                  /\ pyrLevels[k].from >= build.source_mtime
             /\ build'.pc = "idle"
        /\ (IsCallStep /\ ~rgbFile.exists) =>
             /\ pyrResp'.kind = "FileNotFoundError"
             /\ UNCHANGED <<pyrDir, pyrLevels, pyrMeta>>
        /\ IsLevelFailure =>
             /\ pyrResp'.kind = "failed" /\ ~pyrResp'.success
             /\ pyrMeta' = pyrMeta
      ]_vars

\* a build of all levels has returned success over an output directory
\* whose metadata was written by it
C5_Witness ==
    /\ pyrResp.kind = "built" /\ pyrResp.success
    /\ pyrResp.num_levels = NUM_PYRAMID_FACTORS
    /\ pyrMeta = pyrResp.info
    /\ \A k \in 0..(NUM_PYRAMID_FACTORS - 1) : pyrLevels[k].kind = Ok

\* C6: whenever a call is answered from the cache, every level the returned
\* metadata lists exists, is complete, and was produced from the source
\* version whose mtime the metadata records.
C6_CacheHitLevelsComplete ==
    pyrResp.kind = "cached" =>
      \A k \in 0..(pyrResp.info.levels - 1) :
        /\ pyrLevels[k].kind = Ok
        /\ pyrLevels[k].from = pyrResp.info.source_mtime

\* C7: a call with cache checking on, a readable metadata file and a source
\* mtime not past the recorded one returns success with the cached metadata
\* and writes no level file and no metadata file.
C7_CacheHitWritesNothing ==
    [][ (/\ IsCallStep
         /\ pyrResp'.check_cache
         /\ rgbFile.exists
         /\ pyrMeta.kind = Ok
         /\ rgbFile.mtime <= pyrMeta.source_mtime) =>
            /\ pyrResp'.kind = "cached" /\ pyrResp'.success
            /\ pyrResp'.info = pyrMeta
            /\ build'.pc = "idle"
            /\ UNCHANGED <<pyrLevels, pyrMeta>>
      ]_vars

\* C20: a call that returns success returns metadata for exactly the
\* num_levels levels it was asked for, level 0 to level num_levels - 1, also
\* when the metadata comes from the cache.
C20_SuccessReturnsAskedLevels ==
    (pyrResp.op = "call" /\ pyrResp.success) =>
        pyrResp.info.levels = pyrResp.num_levels

(***************************************************************************)
(* pixel dimensions of the level files: src/create_pyramids.py and         *)
(* calculate_new_shape of create_rgb_pyramids.py                           *)
(***************************************************************************)
\* largest small source width and height tried
MaxSourceSize == 3

NUM_ZOOM_LEVELS == 6

\* target_size of create_pyramid_level
target_size == 4408

\* source widths and heights: small ones and the constant output size
SourceSizes == (1..MaxSourceSize) \cup {target_size}

\* the factors of PYRAMID_FACTORS, in thousandths
PYRAMID_FACTORS == <<1000, 3162, 10000, 31620, 100000>>

\* calculate_new_shape for one axis, with scale = factor / 1000:
\* max(1, int(height / scale))
calculate_new_shape(size, factor) == Max({1, (size * 1000) \div factor})

\* ---- exact fractions num / den (den > 0), kept in lowest terms
RECURSIVE GCD(_, _)
GCD(m, n) == IF n = 0 THEN m ELSE GCD(n, m % n)

Frac(num, den) ==
    LET g == GCD(Abs(num), Abs(den))
        sign == IF den < 0 THEN -1 ELSE 1
    IN [num |-> sign * (num \div g), den |-> sign * (den \div g)]

FracInt(n) == [num |-> n, den |-> 1]
FracMul(x, y) == Frac(x.num * y.num, x.den * y.den)
FracDiv(x, y) == Frac(x.num * y.den, x.den * y.num)
FracAdd(x, y) == Frac(x.num * y.den + y.num * x.den, x.den * y.den)
FracSub(x, y) == Frac(x.num * y.den - y.num * x.den, x.den * y.den)
FracNeg(x) == [num |-> 0 - x.num, den |-> x.den]

\* the transforms of the sources tried: north-up (b = d = 0), pixel width a,
\* pixel height e < 0, origin (c, f)
ShapeTransforms ==
    { [a |-> FracInt(1), e |-> FracInt(-1), c |-> FracInt(10),
       f |-> FracInt(50)],
      [a |-> Frac(2, 3), e |-> Frac(-3, 4), c |-> FracInt(-20),
       f |-> FracInt(70)] }

\* transform * transform.scale(sx, sy) for a north-up transform
ScaleTransform(transform, sx, sy) ==
    [a |-> FracMul(transform.a, sx), e |-> FracMul(transform.e, sy),
     c |-> transform.c, f |-> transform.f]

\* src.bounds of a north-up raster
RasterBounds(raster) ==
    [left |-> raster.transform.c,
     bottom |-> FracAdd(raster.transform.f,
                        FracMul(raster.transform.e, FracInt(raster.height))),
     right |-> FracAdd(raster.transform.c,
                       FracMul(raster.transform.a, FracInt(raster.width))),
     top |-> raster.transform.f]

\* a scale that takes each level to cover twice the pixel size of the one
\* before, whatever size it is written at
LevelScaleDoubling(original, intermediate) == FracInt(2)

\* (src.width / intermediate_width) * (intermediate_width / target_size)
LevelScale(original, intermediate) ==
    FracMul(Frac(original, intermediate), Frac(intermediate, target_size))

\* the level file create_pyramid_level writes from the previous level: the
\* data is read at half the previous size and resized to target_size, and
\* the transform is scaled to the new pixel size
create_pyramid_level(prev) ==
    LET intermediate_height == Max({1, prev.height \div 2})
        intermediate_width == Max({1, prev.width \div 2})
    IN [width |-> target_size, height |-> target_size,
        read_width |-> intermediate_width,
        read_height |-> intermediate_height,
        transform |-> ScaleTransform(prev.transform,
                         LevelScale(prev.width, intermediate_width),
                         LevelScale(prev.height, intermediate_height))]

\* the level file resample_geotiff writes from the source at the shape
\* calculate_new_shape gives: the transform is rebuilt from the bounds
resample_geotiff(src, factor) ==
    LET new_height == calculate_new_shape(src.height, factor)
        new_width == calculate_new_shape(src.width, factor)
        bounds == RasterBounds(src)
        new_pixel_width_deg ==
            FracDiv(FracSub(bounds.right, bounds.left), FracInt(new_width))
        new_pixel_height_deg ==
            FracDiv(FracSub(bounds.top, bounds.bottom), FracInt(new_height))
    IN [width |-> new_width, height |-> new_height,
        transform |-> [a |-> new_pixel_width_deg,
                       e |-> FracNeg(new_pixel_height_deg),
                       c |-> bounds.left, f |-> bounds.top]]

\* create_pyramids_for_image, level 0: the source is written out under its
\* own profile
CopyLevel0 ==
    /\ UNCHANGED nonShapeVars
    /\ imgLevels = <<>>
    /\ imgLevels' = <<[width |-> imgSource.width, height |-> imgSource.height,
                       read_width |-> imgSource.width,
                       read_height |-> imgSource.height,
                       transform |-> imgSource.transform]>>
    /\ UNCHANGED <<imgSource, rgbLevels>>

\* create_pyramids_for_image, one pass of the loop over range(1, 6)
CreatePyramidLevel ==
    /\ UNCHANGED nonShapeVars
    /\ Len(imgLevels) >= 1 /\ Len(imgLevels) < NUM_ZOOM_LEVELS
    /\ imgLevels' = Append(imgLevels,
                           create_pyramid_level(imgLevels[Len(imgLevels)]))
    /\ UNCHANGED <<imgSource, rgbLevels>>

\* create_rgb_pyramids, one pass of the level loop: resample_geotiff writes
\* the level from the source
ResampleLevel ==
    /\ UNCHANGED nonShapeVars
    /\ Len(rgbLevels) < NUM_PYRAMID_FACTORS
    /\ rgbLevels' = Append(rgbLevels,
         resample_geotiff(imgSource, PYRAMID_FACTORS[Len(rgbLevels) + 1]))
    /\ UNCHANGED <<imgSource, imgLevels>>

InitShape ==
    /\ IdleIndex /\ IdleTile /\ IdleWin /\ IdlePyr /\ IdleRel /\ IdleZoom /\ IdleBounds /\ IdlePool /\ IdleReplay /\ IdleBbox /\ IdleStage /\ IdlePoll /\ IdleCancel
    /\ imgSource \in [width : SourceSizes, height : SourceSizes,
                      transform : ShapeTransforms]
    /\ imgLevels = <<>>
    /\ rgbLevels = <<>>

NextShape == CopyLevel0 \/ CreatePyramidLevel \/ ResampleLevel

SpecShape == InitShape /\ [][NextShape]_vars

\* C8: every level file a pyramid build has produced for one source has the
\* same width and the same height whatever the source's dimensions, and for
\* create_pyramids_for_image these are the constant output size.
C8_LevelsShareConstantSize ==
    /\ \A k \in 1..Len(imgLevels) :
         imgLevels[k].width = target_size /\ imgLevels[k].height = target_size
    /\ \A j, k \in 1..Len(rgbLevels) :
         /\ rgbLevels[j].width = rgbLevels[k].width
         /\ rgbLevels[j].height = rgbLevels[k].height

\* the ground extent of a raster along x and along y
FootprintWidth(raster) == FracMul(raster.transform.a, FracInt(raster.width))
FootprintHeight(raster) == FracMul(raster.transform.e, FracInt(raster.height))

SameFootprint(level, source) ==
    /\ level.transform.c = source.transform.c
    /\ level.transform.f = source.transform.f
    /\ FootprintWidth(level) = FootprintWidth(source)
    /\ FootprintHeight(level) = FootprintHeight(source)

MaxLabelVecs == 2
\* largest number of labeled pixels in one request
MaxPixels == 2

RelLabels == {"road", "building"}

EmbeddingLists == UNION {[1..n -> Vectors] : n \in 0..MaxLabelVecs}

\* label_embeddings: label -> list of vectors, keys distinct
LabelDicts ==
    {<<>>}
    \cup {<<[label |-> l, embeddings |-> e]>> :
            l \in RelLabels, e \in EmbeddingLists}
    \cup {<<[label |-> "road", embeddings |-> e1],
            [label |-> "building", embeddings |-> e2]>> :
            e1 \in EmbeddingLists, e2 \in EmbeddingLists}
    \cup {<<[label |-> "building", embeddings |-> e1],
            [label |-> "road", embeddings |-> e2]>> :
            e1 \in EmbeddingLists, e2 \in EmbeddingLists}

\* labeled_pixels: key -> {label, embedding}; the key of a pixel is its
\* position
PixelDicts ==
    UNION {[1..n -> [label : RelLabels, embedding : Vectors]] :
             n \in 0..MaxPixels}

RelRequests == [label_embeddings : LabelDicts, labeled_pixels : PixelDicts]

\* the sum of the first n vectors of a list, component by component
RECURSIVE VecSum(_, _)
VecSum(embeddings, n) ==
    IF n = 0 THEN ZeroVector
    ELSE [i \in 1..EMBEDDING_DIM |->
             VecSum(embeddings, n - 1)[i] + embeddings[n][i]]

HasEmbeddings(entry) == entry.embeddings # <<>>

\* label_avgs: the labels with a non-empty list, in the order of
\* label_embeddings; np.mean is the sum over the count
RECURSIVE label_avgs(_)
label_avgs(label_embeddings) ==
    IF label_embeddings = <<>> THEN <<>>
    ELSE LET entry == Head(label_embeddings)
             rest == label_avgs(Tail(label_embeddings))
         IN IF HasEmbeddings(entry)
            THEN <<[label |-> entry.label,
                    sum |-> VecSum(entry.embeddings, Len(entry.embeddings)),
                    count |-> Len(entry.embeddings)]>> \o rest
            ELSE rest

\* | pixel_emb - sum / count | ^ 2 as a fraction
RECURSIVE ScaledSumSq(_, _, _)
ScaledSumSq(pixel_emb, avg, n) ==
    IF n = 0 THEN 0
    ELSE (avg.count * pixel_emb[n] - avg.sum[n])
            * (avg.count * pixel_emb[n] - avg.sum[n])
         + ScaledSumSq(pixel_emb, avg, n - 1)

Distance(pixel_emb, avg) ==
    [num |-> ScaledSumSq(pixel_emb, avg, EMBEDDING_DIM),
     den |-> avg.count * avg.count]

DistLess(d1, d2) == d1.num * d2.den < d2.num * d1.den

\* distances: one entry per label of label_avgs, in its order
Distances(pixel_emb, avgs) ==
    [j \in 1..Len(avgs) |->
        [label |-> avgs[j].label, distance |-> Distance(pixel_emb, avgs[j])]]

\* min(distances, key=distances.get): the first entry no other entry is
\* below
ClosestIndex(distances) ==
    CHOOSE j \in 1..Len(distances) :
        /\ \A k \in 1..Len(distances) :
              ~DistLess(distances[k].distance, distances[j].distance)
        /\ \A k \in 1..(j - 1) :
              DistLess(distances[j].distance, distances[k].distance)

HasLabel(distances, label) ==
    \E j \in 1..Len(distances) : distances[j].label = label

\* distances[label]
DistanceOf(distances, label) ==
    distances[CHOOSE j \in 1..Len(distances) :
                 distances[j].label = label].distance

\* distances[current_label] raises KeyError for some pixel
RelabelRaises(labeled_pixels, avgs) ==
    \E key \in 1..Len(labeled_pixels) :
        ~HasLabel(Distances(labeled_pixels[key].embedding, avgs),
                  labeled_pixels[key].label)

\* the records the loop appends for the first n pixels
RECURSIVE RelabeledUpTo(_, _, _)
RelabeledUpTo(labeled_pixels, avgs, n) ==
    IF n = 0 THEN <<>>
    ELSE LET pixel_data == labeled_pixels[n]
             current_label == pixel_data.label
             distances == Distances(pixel_data.embedding, avgs)
             new == distances[ClosestIndex(distances)]
             before == RelabeledUpTo(labeled_pixels, avgs, n - 1)
         IN IF new.label # current_label
            THEN Append(before,
                        [key |-> n,
                         old_label |-> current_label,
                         new_label |-> new.label,
                         old_distance |-> DistanceOf(distances, current_label),
                         new_distance |-> new.distance])
            ELSE before

RelError(status, error) ==
    [op |-> "relabel", status |-> status, success |-> FALSE,
     has_relabeled |-> FALSE, relabeled |-> <<>>, relabel_count |-> 0,
     total_pixels |-> 0, unchanged_pixels |-> 0, error |-> error]

RelSuccess(relabeled, total) ==
    [op |-> "relabel", status |-> 200, success |-> TRUE,
     has_relabeled |-> TRUE, relabeled |-> relabeled,
     relabel_count |-> Len(relabeled), total_pixels |-> total,
     unchanged_pixels |-> total - Len(relabeled), error |-> ""]

\* the label_embeddings of the call before, kept in place of this one's
RequestLabelsKept(req) == relLast.req.label_embeddings

\* data.get('label_embeddings', {})
RequestLabels(req) == req.label_embeddings

\* the body of api_relabel_by_similarity
RelabelAnswer(req) ==
    LET avgs == label_avgs(RequestLabels(req))
    IN IF RequestLabels(req) = <<>>
       THEN RelError(400, "No label embeddings provided")
       ELSE IF req.labeled_pixels = <<>>
       THEN RelSuccess(<<>>, 0)
       ELSE IF avgs = <<>>
       THEN RelError(400, "No valid labels with embeddings")
       ELSE IF RelabelRaises(req.labeled_pixels, avgs)
       THEN RelError(500, "KeyError")
       ELSE RelSuccess(RelabeledUpTo(req.labeled_pixels, avgs,
                                     Len(req.labeled_pixels)),
                       Len(req.labeled_pixels))

\* POST /api/embeddings/relabel-by-similarity with the body relReq
Relabel ==
    /\ UNCHANGED nonRelVars
    /\ relResp.op = "none"
    /\ relResp' = RelabelAnswer(relReq)
    /\ UNCHANGED relReq

\* any request body, not yet answered
InitRelabel ==
    /\ IdleIndex /\ IdleTile /\ IdleWin /\ IdlePyr /\ IdleShape /\ IdleZoom /\ IdleBounds /\ IdlePool /\ IdleReplay /\ IdleBbox /\ IdleStage /\ IdlePoll /\ IdleCancel
    /\ relReq \in RelRequests
    /\ relResp = NoRelResp

NextRelabel == Relabel

SpecRelabel == InitRelabel /\ [][NextRelabel]_vars

\* the current label of a pixel is among the labels nearest to it
CurrentIsNearest(pixel_data, avgs) ==
    LET distances == Distances(pixel_data.embedding, avgs)
    IN /\ HasLabel(distances, pixel_data.label)
       /\ \A j \in 1..Len(distances) :
             ~DistLess(distances[j].distance,
                       DistanceOf(distances, pixel_data.label))

RelabelProcessed ==
    /\ relResp.op = "relabel"
    /\ relReq.labeled_pixels # <<>>
    /\ label_avgs(relReq.label_embeddings) # <<>>

\* C11: a relabel request with pixels and at least one label mean answers
\* with a relabel list that holds a record for a pixel exactly when the
\* pixel's current label is not a minimum-distance label; the record
\* carries the pixel's key, its current label, a minimum-distance label and
\* the two distances.
C11_RecordExactlyWhenCurrentNotNearest ==
    RelabelProcessed =>
        LET avgs == label_avgs(relReq.label_embeddings)
            pixels == relReq.labeled_pixels
        IN /\ relResp.has_relabeled
           /\ \A key \in 1..Len(pixels) :
                 (\E r \in 1..Len(relResp.relabeled) :
                      relResp.relabeled[r].key = key)
                 <=> ~CurrentIsNearest(pixels[key], avgs)
           /\ \A r \in 1..Len(relResp.relabeled) :
                 LET rec == relResp.relabeled[r]
                     distances == Distances(pixels[rec.key].embedding, avgs)
                 IN /\ rec.old_label = pixels[rec.key].label
                    /\ HasLabel(distances, rec.new_label)
                    /\ rec.new_distance = DistanceOf(distances, rec.new_label)
                    /\ rec.old_distance = DistanceOf(distances, rec.old_label)
                    /\ \A j \in 1..Len(distances) :
                          ~DistLess(distances[j].distance, rec.new_distance)

\* C12: every record of the relabel list has an old distance strictly
\* greater than its new distance.
C12_OldDistanceStrictlyGreater ==
    relResp.op = "relabel" =>
        \A r \in 1..Len(relResp.relabeled) :
            DistLess(relResp.relabeled[r].new_distance,
                     relResp.relabeled[r].old_distance)

\* C13: a relabel request in which no label has any vectors is answered
\* with an error and no relabel list, whatever labeled_pixels holds.
C13_NoVectorsIsAnError ==
    (relResp.op = "relabel" /\ label_avgs(relReq.label_embeddings) = <<>>)
        => (~relResp.success /\ relResp.status = 400
            /\ ~relResp.has_relabeled)

\* C26: a relabel request in which at least one label has vectors succeeds
\* and accounts for every labeled pixel (relabeled + unchanged = total),
\* also when a pixel carries a label that has no vectors or is not in
\* label_embeddings.
C26_EveryPixelAccountedFor ==
    (relResp.op = "relabel" /\ label_avgs(relReq.label_embeddings) # <<>>)
        => /\ relResp.success /\ relResp.status = 200
           /\ relResp.total_pixels = Len(relReq.labeled_pixels)
           /\ relResp.relabel_count + relResp.unchanged_pixels
                 = relResp.total_pixels

(***************************************************************************)
(* The zoom-to-pyramid-level mappings: get_reader of src/tile_server.py    *)
(* (pyramid_level above), zoom_to_pyramid_level and                        *)
(* zoom_to_rgb_pyramid_level of src/backend/tile_server.py, and            *)
(* zoom_to_pyramid_level of src/backend/main.py                            *)
(***************************************************************************)
\* zooms asked for: -MaxZoom .. MaxZoom
MaxZoom == 20

EMBEDDING_BASE_ZOOM == 18
RGB_BASE_ZOOM == 12
ZOOM_OFFSET == 3

\* src/backend/tile_server.py
zoom_to_pyramid_level(z, max_pyramid_level) ==
    Max({0, Min({max_pyramid_level, (EMBEDDING_BASE_ZOOM - z) \div 2})})

\* src/backend/tile_server.py
zoom_to_rgb_pyramid_level(z, max_pyramid_level) ==
    Min({max_pyramid_level, Max({0, (RGB_BASE_ZOOM - z) \div 2})})

\* src/backend/main.py: the zoomOffset of the front end is added back first
main_zoom_to_pyramid_level(z, max_pyramid_level) ==
    LET z_adjusted == z + ZOOM_OFFSET
    IN Max({0, Min({max_pyramid_level,
                    (EMBEDDING_BASE_ZOOM - z_adjusted) \div 2})})

ZoomsAsked == (0 - MaxZoom)..MaxZoom

\* one call of each mapping for the same z, with the default
\* max_pyramid_level
ZoomCall(z) ==
    [z |-> z,
     reader |-> pyramid_level(z),
     embedding |-> zoom_to_pyramid_level(z, COARSEST_LEVEL),
     rgb |-> zoom_to_rgb_pyramid_level(z, COARSEST_LEVEL),
     main |-> main_zoom_to_pyramid_level(z, COARSEST_LEVEL)]

MapZoom ==
    /\ UNCHANGED nonZoomVars
    /\ \E z \in ZoomsAsked :
         zoomCalls' = IF zoomCalls = <<>> THEN <<ZoomCall(z)>>
                      ELSE <<ZoomCall(z), zoomCalls[1]>>

InitZoom ==
    /\ IdleIndex /\ IdleTile /\ IdleWin /\ IdlePyr /\ IdleShape /\ IdleRel /\ IdleBounds /\ IdlePool /\ IdleReplay /\ IdleBbox /\ IdleStage /\ IdlePoll /\ IdleCancel
    /\ IdleZoom

NextZoom == MapZoom

SpecZoom == InitZoom /\ [][NextZoom]_vars

ZoomMappings == {"reader", "embedding", "rgb", "main"}

\* zooms 3..14 and the levels the tile server's table gives them
ZoomTable == [z \in 3..14 |-> <<5, 5, 4, 4, 3, 3, 2, 2, 1, 1, 0, 0>>[z - 2]]

\* C16: for each of the zoom-to-level mappings, a call returns a level in
\* 0..COARSEST_LEVEL, two calls with the same z return the same level, the
\* call with the larger z never returns the larger level, and a call two
\* zoom units above one that returned a level strictly between the clamps
\* returns the level below it; get_reader maps zooms 14,13 to 0, 12,11 to 1,
\* 10,9 to 2, 8,7 to 3, 6,5 to 4 and 4,3 to 5.
C16_ZoomMappingIsClampedStep ==
    /\ \A i \in 1..Len(zoomCalls) :
          /\ \A m \in ZoomMappings : zoomCalls[i][m] \in 0..COARSEST_LEVEL
          /\ zoomCalls[i].z \in DOMAIN ZoomTable
                => zoomCalls[i].reader = ZoomTable[zoomCalls[i].z]
    /\ Len(zoomCalls) = 2 =>
          \A m \in ZoomMappings :
             LET cur == zoomCalls[1]
                 prev == zoomCalls[2]
             IN /\ cur.z = prev.z => cur[m] = prev[m]
                /\ cur.z >= prev.z => cur[m] <= prev[m]
                /\ (cur.z = prev.z + 2 /\ 0 < prev[m]
                    /\ prev[m] < COARSEST_LEVEL) => cur[m] = prev[m] - 1

\* zoom 12 was mapped right after zoom 10: get_reader went from level 2 to
\* level 1
C16_Witness ==
    /\ Len(zoomCalls) = 2
    /\ zoomCalls[2].z = 10 /\ zoomCalls[1].z = 12
    /\ zoomCalls[1].reader = 1 /\ zoomCalls[2].reader = 2

(***************************************************************************)
(* The bounds endpoints: get_bounds of src/tile_server.py (above) and      *)
(* get_tile_bounds of src/backend/tile_server.py                           *)
(***************************************************************************)
\* metadata.json of the viewport: not there, a JSON object with a bounds
\* entry, a JSON object without one, or not JSON at all
MetadataKinds == {"absent", "ok", "no_bounds", "corrupt"}

BackendResp(status, has_bounds, bounds) ==
    [op |-> "bounds", status |-> status, has_bounds |-> has_bounds,
     bounds |-> bounds]

\* get_tile_bounds(viewport_id, year): the HTTPException(404) of the else
\* branch is raised inside the try and caught by `except Exception`, which
\* raises HTTPException(500)
GetTileBounds ==
    /\ UNCHANGED nonBoundsVars
    /\ UNCHANGED vpMetadata
    /\ backendResp' =
         IF vpMetadata = "absent" THEN BackendResp(500, FALSE, "none")
         ELSE IF vpMetadata = "corrupt" THEN BackendResp(500, FALSE, "none")
         ELSE IF vpMetadata = "no_bounds"
         THEN \* metadata.get('bounds', {}), metadata.get('center', [0, 0])
              BackendResp(200, TRUE, "default")
         ELSE BackendResp(200, TRUE, "metadata")

\* the viewport's metadata.json is written, rewritten or removed
WriteViewportMetadata ==
    /\ UNCHANGED nonBoundsVars
    /\ \E kind \in MetadataKinds \ {vpMetadata} : vpMetadata' = kind
    /\ backendResp' = NoBackendResp

InitBounds ==
    /\ IdleIndex /\ IdleWin /\ IdlePyr /\ IdleShape /\ IdleRel /\ IdleZoom /\ IdlePool /\ IdleReplay /\ IdleBbox /\ IdleStage /\ IdlePoll /\ IdleCancel
    /\ IdleTile /\ IdleBounds

NextBounds ==
    \/ GetBounds
    \/ GetTileBounds
    \/ CreateLevelFile
    \/ RemoveLevelFile
    \/ WriteViewportMetadata

SpecBounds == InitBounds /\ [][NextBounds]_vars

\* C17: a bounds query is answered 404 when the level-0 raster of the layer
\* (get_bounds) or the metadata of the viewport (get_tile_bounds) is
\* missing, and carries no bounds then.
C17_MissingBoundsSourceIs404 ==
    /\ (/\ tileResp.op = "bounds"
        /\ ~RequestRejected(tileResp.viewport, tileResp.map_id)
        /\ TifPath(tileResp.viewport, tileResp.map_id, 0) \notin tileFiles)
          => (tileResp.status = 404 /\ tileResp.cause = "not_found")
    /\ (backendResp.op = "bounds" /\ vpMetadata = "absent")
          => (backendResp.status = 404 /\ ~backendResp.has_bounds)

(***************************************************************************)
(* src/backend/processing/create_coarsened_embedding_pyramids.py           *)
(*                                                                         *)
(* An array is its shape and, for the small grids, its values as exact     *)
(* fractions; the 4408 x 4408 grid is carried by its shape alone.          *)
(***************************************************************************)
\* largest small grid height and width tried
MaxGrid == 5
\* modelled number of embedding dimensions (EMBEDDING_DIMENSIONS is 128)
PoolDims == 2

POOLING_SIZE == 2

\* the value at row r, column c, dimension d of the grids tried: a ramp and
\* a checkerboard
GridValue(pattern, r, c, d, width) ==
    IF pattern = "ramp" THEN FracInt(r * width + c + d)
    ELSE FracInt((r + c + d) % 2)

SmallGrid(pattern, height, width) ==
    [height |-> height, width |-> width, dims |-> PoolDims,
     has_data |-> TRUE,
     data |-> [r \in 1..height |-> [c \in 1..width |-> [d \in 1..PoolDims |->
                 GridValue(pattern, r, c, d, width)]]]]

RawGrids ==
    {SmallGrid(pattern, h, w) :
        pattern \in {"ramp", "checker"}, h \in 1..MaxGrid, w \in 1..MaxGrid}
    \cup {[height |-> target_size, width |-> target_size, dims |-> PoolDims,
           has_data |-> FALSE, data |-> <<>>]}

\* a pooling that keeps the top-left value of each block
BlockTopLeft(v1, v2, v3, v4) == v1

\* mean(axis=(1, 3)) over one 2 x 2 block
BlockMean(v1, v2, v3, v4) ==
    FracDiv(FracAdd(FracAdd(v1, v2), FracAdd(v3, v4)),
            FracInt(POOLING_SIZE * POOLING_SIZE))

\* apply_2x2_pooling: an odd trailing row or column is cut off, then every
\* 2 x 2 block is averaged
apply_2x2_pooling(embeddings) ==
    LET height_even == (embeddings.height \div 2) * 2
        width_even == (embeddings.width \div 2) * 2
        height == height_even \div 2
        width == width_even \div 2
    IN [height |-> height, width |-> width, dims |-> embeddings.dims,
        has_data |-> embeddings.has_data,
        data |->
          IF ~embeddings.has_data THEN <<>>
          ELSE [r \in 1..height |-> [c \in 1..width |->
                 [d \in 1..embeddings.dims |->
                    BlockMean(embeddings.data[2 * r - 1][2 * c - 1][d],
                              embeddings.data[2 * r - 1][2 * c][d],
                              embeddings.data[2 * r][2 * c - 1][d],
                              embeddings.data[2 * r][2 * c][d])]]]]

\* np.save(level_0_file, embeddings)
SaveLevel0 ==
    /\ UNCHANGED nonPoolVars
    /\ coarseLevels = <<>>
    /\ coarseLevels' = <<rawEmbeddings>>
    /\ UNCHANGED rawEmbeddings

\* one pass of the loop over range(1, NUM_ZOOM_LEVELS): current_embeddings
\* is the level written last
PoolLevel ==
    /\ UNCHANGED nonPoolVars
    /\ Len(coarseLevels) >= 1 /\ Len(coarseLevels) < NUM_ZOOM_LEVELS
    /\ coarseLevels' = Append(coarseLevels,
                          apply_2x2_pooling(coarseLevels[Len(coarseLevels)]))
    /\ UNCHANGED rawEmbeddings

InitPool ==
    /\ IdleIndex /\ IdleTile /\ IdleWin /\ IdlePyr /\ IdleShape /\ IdleRel /\ IdleReplay /\ IdleBbox /\ IdleStage /\ IdlePoll /\ IdleCancel
    /\ IdleZoom /\ IdleBounds
    /\ rawEmbeddings \in RawGrids
    /\ coarseLevels = <<>>

NextPool == SaveLevel0 \/ PoolLevel

SpecPool == InitPool /\ [][NextPool]_vars

\* level sizes of a 4408 x 4408 source
CoarseSizes == <<4408, 2204, 1102, 551, 275, 137>>

\* C22: level 0 is the raw grid; level k >= 1 has floor(H / 2^k) rows,
\* floor(W / 2^k) columns and the dimensions of the raw grid, and each of
\* its values is the mean of the 2 x 2 block of level k - 1 under it (an odd
\* trailing row or column of level k - 1 belongs to no block); for a
\* 4408 x 4408 source the level sizes are 4408, 2204, 1102, 551, 275, 137.
C22_LevelsAreBlockMeans ==
    /\ Len(coarseLevels) >= 1 => coarseLevels[1] = rawEmbeddings
    /\ \A k \in 1..Len(coarseLevels) :
          /\ coarseLevels[k].height = rawEmbeddings.height \div Pow2(k - 1)
          /\ coarseLevels[k].width = rawEmbeddings.width \div Pow2(k - 1)
          /\ coarseLevels[k].dims = rawEmbeddings.dims
          /\ rawEmbeddings.height = target_size
                => coarseLevels[k].height = CoarseSizes[k]
          /\ rawEmbeddings.width = target_size
                => coarseLevels[k].width = CoarseSizes[k]
    /\ \A k \in 2..Len(coarseLevels) :
          coarseLevels[k].has_data =>
            LET below == coarseLevels[k - 1].data
                here == coarseLevels[k].data
            IN /\ Len(here) = coarseLevels[k].height
               /\ \A r \in 1..Len(here) :
                    /\ Len(here[r]) = coarseLevels[k].width
                    /\ \A c \in 1..Len(here[r]) :
                         \A d \in 1..rawEmbeddings.dims :
                           FracMul(here[r][c][d], FracInt(4)) =
                             FracAdd(FracAdd(below[2 * r - 1][2 * c - 1][d],
                                             below[2 * r - 1][2 * c][d]),
                                     FracAdd(below[2 * r][2 * c - 1][d],
                                             below[2 * r][2 * c][d]))

\* all six levels of a ramp with an odd number of rows and of columns are
\* written, and the first pooled level differs from its top-left inputs
C22_Witness ==
    /\ Len(coarseLevels) = NUM_ZOOM_LEVELS
    /\ rawEmbeddings.has_data
    /\ rawEmbeddings.height = MaxGrid /\ rawEmbeddings.width = MaxGrid - 2
    /\ coarseLevels[2].height = MaxGrid \div 2
    /\ coarseLevels[2].data[1][1][1] # rawEmbeddings.data[1][1][1]

(***************************************************************************)
(* api_relabel_by_similarity on a running server: calls one after another, *)
(* with calls of other endpoints in between                                *)
(***************************************************************************)
\* the vectors the repeated requests are made of
ReplayVectors == {ZeroVector, [i \in 1..EMBEDDING_DIM |-> IF i = 1 THEN 1 ELSE 0]}

ReplayLabelDicts ==
    {<<>>, <<[label |-> "road", embeddings |-> <<>>]>>}
    \cup {<<[label |-> "road", embeddings |-> <<v>>]>> : v \in ReplayVectors}
    \cup {<<[label |-> "road", embeddings |-> <<v>>],
            [label |-> "building", embeddings |-> <<w>>]>> :
            v \in ReplayVectors, w \in ReplayVectors}
    \cup {<<[label |-> "building", embeddings |-> <<v>>],
            [label |-> "road", embeddings |-> <<v>>]>> : v \in ReplayVectors}

ReplayPixelDicts ==
    {<<>>} \cup {<<[label |-> l, embedding |-> ZeroVector]>> : l \in RelLabels}

ReplayRequests ==
    [label_embeddings : ReplayLabelDicts, labeled_pixels : ReplayPixelDicts]

\* POST /api/embeddings/relabel-by-similarity on the running server; the
\* call before may be the one that is remembered for comparison
RelabelAgain ==
    /\ UNCHANGED nonReplayVars
    /\ \E req \in ReplayRequests :
         relLast' = [req |-> req, resp |-> RelabelAnswer(req)]
    /\ relEarlier' \in {relEarlier, relLast}

InitReplay ==
    /\ IdleIndex /\ IdleTile /\ IdleWin /\ IdlePyr /\ IdleShape /\ IdleRel /\ IdleBbox /\ IdleStage /\ IdlePoll /\ IdleCancel
    /\ IdleZoom /\ IdleBounds /\ IdlePool
    /\ IdleReplay

NextReplay ==
    \/ RelabelAgain
    \/ CheckFaissExist
    \/ IsReady
    \/ Extract

SpecReplay == InitReplay /\ [][NextReplay]_vars

MaxBboxZoom == 3

\* x / n * 360.0 - 180.0, exactly
TileLon(x, n) == FracSub(FracMul(Frac(x, n), FracInt(360)), FracInt(180))

\* 1 - 2 * y / n, the argument of atan(sinh(pi * _)): the latitude is a
\* strictly increasing function of it
TileMercator(y, n) == FracSub(FracInt(1), Frac(2 * y, n))

\* (lon_min, lat_min, lon_max, lat_max) of tile (x, y) of a grid of n columns
\* and rows, the latitudes given by their Mercator arguments
BboxOfGrid(x, y, n) ==
    [lon_min |-> TileLon(x, n),
     lat_min |-> TileMercator(y + 1, n),
     lon_max |-> TileLon(x + 1, n),
     lat_max |-> TileMercator(y, n)]

\* src/tile_server.py
tile_to_bbox(x, y, zoom) == BboxOfGrid(x, y, Pow2(zoom))

\* src/backend/tile_server.py
backend_tile_to_bbox(x, y, z) == BboxOfGrid(x, y, Pow2(z))

\* src/backend/main.py
main_tile_to_bbox(x, y, z) ==
    LET z_adjusted == z + ZOOM_OFFSET
    IN BboxOfGrid(x, y, Pow2(z_adjusted))

\* the tiles of the grids of zooms 0..MaxBboxZoom
BboxRequests ==
    UNION {[x : 0..(Pow2(z) - 1), y : 0..(Pow2(z) - 1), z : {z}] :
              z \in 0..MaxBboxZoom}

\* the three functions called with one tile
TileToBbox ==
    /\ UNCHANGED nonBboxVars
    /\ bboxCall.op = "none"
    /\ bboxCall' = [op |-> "tile_to_bbox",
                    tile_server |-> tile_to_bbox(bboxReq.x, bboxReq.y, bboxReq.z),
                    backend_tile_server |->
                        backend_tile_to_bbox(bboxReq.x, bboxReq.y, bboxReq.z),
                    main |-> main_tile_to_bbox(bboxReq.x, bboxReq.y, bboxReq.z)]
    /\ UNCHANGED bboxReq

InitBbox ==
    /\ IdleIndex /\ IdleTile /\ IdleWin /\ IdlePyr /\ IdleShape /\ IdleRel /\ IdleStage /\ IdlePoll /\ IdleCancel
    /\ IdleZoom /\ IdleBounds /\ IdlePool /\ IdleReplay
    /\ bboxReq \in BboxRequests
    /\ bboxCall = NoBboxCall

NextBbox == TileToBbox

SpecBbox == InitBbox /\ [][NextBbox]_vars

\* C25: the three tile_to_bbox implementations return the same bounding box
\* for the same tile (x, y, z).
C25_SameBboxEverywhere ==
    bboxCall.op = "tile_to_bbox" =>
        /\ bboxCall.tile_server = bboxCall.backend_tile_server
        /\ bboxCall.tile_server = bboxCall.main

(***************************************************************************)
(* PipelineRunner.stage_4_create_faiss and cleanup_mosaics, with the       *)
(* create_faiss_index.py run it starts                                     *)
(***************************************************************************)
\* a mosaic is the matrix of its embeddings, <<>> when the file is absent
StageMosaics == IndexMosaics

\* create_faiss_index_for_year for one year whose mosaic exists: the year
\* directory is made and the run ends as `out` says
YearFaissAfter(old, out) ==
    [dir |-> TRUE, files |-> [k \in 1..4 |-> KindAfter(k, old.files[k], out)]]

\* create_faiss_index: the years with a mosaic
available_years == {y \in StageYears : yearMosaic[y] # <<>>}

\* `for year_dir in faiss_viewport_dir.glob("*")`: some year directory holds
\* embeddings.index
faiss_found(faiss) ==
    \E y \in StageYears : faiss[y].dir /\ faiss[y].files[1] # Absent

\* cleanup_mosaics: every {viewport}_embeddings_*.tif is unlinked
cleanup_mosaics(mosaics) == [y \in StageYears |-> <<>>]

StageResp(ok, error, deleted, failed) ==
    [op |-> "stage4", ok |-> ok, error |-> error, deleted |-> deleted,
     failed |-> failed]

stage_4_create_faiss ==
    /\ UNCHANGED nonStageVars
    /\ IF available_years = {}
       THEN \* sys.exit(1): "No embeddings found"
            /\ stageResp' = StageResp(FALSE, "Stage 4 failed - FAISS creation",
                                      {}, {})
            /\ UNCHANGED <<yearMosaic, yearFaiss>>
       ELSE \E outs \in [available_years -> BuildOutcomes] :
              /\ \A y \in available_years :
                    StopsAtZeroCheck(yearMosaic[y], outs[y])
              /\ yearFaiss' =
                    [y \in StageYears |->
                        IF y \in available_years
                        THEN YearFaissAfter(yearFaiss[y], outs[y])
                        ELSE yearFaiss[y]]
              /\ IF ~faiss_found(yearFaiss')
                 THEN /\ stageResp' =
                            StageResp(FALSE,
                               "Stage 4 verification failed - FAISS index file missing",
                               {}, {y \in available_years : outs[y].written # 4})
                      /\ UNCHANGED yearMosaic
                 ELSE /\ yearMosaic' = cleanup_mosaics(yearMosaic)
                      /\ stageResp' =
                            StageResp(TRUE, "", available_years,
                               {y \in available_years : outs[y].written # 4})

\* stage 1 leaves the embedding mosaic of one year
DownloadYear ==
    /\ UNCHANGED nonStageVars
    /\ \E y \in StageYears, m \in StageMosaics :
         yearMosaic' = [yearMosaic EXCEPT ![y] = m]
    /\ stageResp' = NoStageResp
    /\ UNCHANGED yearFaiss

InitStage ==
    /\ IdleIndex /\ IdleTile /\ IdleWin /\ IdlePyr /\ IdleShape /\ IdleRel /\ IdlePoll /\ IdleCancel
    /\ IdleZoom /\ IdleBounds /\ IdlePool /\ IdleReplay /\ IdleBbox
    /\ IdleStage

NextStage == DownloadYear \/ stage_4_create_faiss

SpecStage == InitStage /\ [][NextStage]_vars

\* C27: when stage 4 has deleted the mosaics of a viewport, the FAISS
\* directory of every year whose mosaic was deleted holds all_embeddings.npy,
\* pixel_coords.npy and metadata.json, and no deleted mosaic belongs to a
\* year whose index build failed or was rejected.
C27_DeletedOnlyAfterCompleteBuild ==
    stageResp.op = "stage4" =>
        \A y \in stageResp.deleted :
            /\ y \notin stageResp.failed
            /\ \A k \in 2..4 : yearFaiss[y].files[k] = Ok

(***************************************************************************)
(* the readers cache of src/tile_server.py over a run of tile requests     *)
(***************************************************************************)
\* viewport names whose keys could be taken for those of the viewport served
ProbeViewports ==
    {DataViewport, DataViewport \o "_2024", DataViewport \o "_rgb",
     DataViewport \o "_2024_0", "empty_vp"}

\* the level path of the tile request the response answers
AskedPath(r) == TifPath(r.viewport, r.map_id, pyramid_level(r.z))

\* what get_reader gave to the request that was answered last
ReaderAnswerIsOwnPath ==
    (tileResp.op = "tile" /\ tileResp.status # 400) =>
        /\ tileResp.path \in {"", AskedPath(tileResp)}
        /\ AskedPath(tileResp) \in tileFiles => tileResp.path = AskedPath(tileResp)
        /\ tileResp.path # "" =>
              /\ ReaderKey(tileResp.viewport, tileResp.map_id,
                           pyramid_level(tileResp.z)) \in DOMAIN readers
              /\ readers[ReaderKey(tileResp.viewport, tileResp.map_id,
                                   pyramid_level(tileResp.z))] = tileResp.path

\* no cached entry is the entry of a second triple
ReaderKeysAreUnambiguous ==
    \A v \in ProbeViewports, m \in _VALID_MAP_IDS, l \in 0..COARSEST_LEVEL :
        ReaderKey(v, m, l) \in DOMAIN readers =>
            readers[ReaderKey(v, m, l)] = TifPath(v, m, l)

\* a step inserts only paths of files that exist, keeps every entry it
\* found, and inserts nothing when the file asked for is missing
ReaderStep ==
    /\ \A k \in DOMAIN readers :
          k \in DOMAIN readers' /\ readers'[k] = readers[k]
    /\ \A k \in (DOMAIN readers') \ (DOMAIN readers) : readers'[k] \in tileFiles
    /\ (tileResp'.op = "tile" /\ tileResp'.cause = "missing") =>
          readers' = readers

\* C28: after any sequence of tile requests get_reader returns nothing or
\* the level path of the viewport, map id and level asked for; the cache
\* holds only paths that existed when they were inserted, an entry of one
\* triple is never returned for another, and a lookup of a missing file
\* leaves the cache unchanged, so that the file is found once it exists.
C28_ReaderCacheIsFaithful ==
    /\ [](ReaderAnswerIsOwnPath /\ ReaderKeysAreUnambiguous)
    /\ [][ReaderStep]_vars

\* a tile was answered from a level file while the cache also holds the
\* path of another triple whose file has been removed since
C28_Witness ==
    /\ tileResp.op = "tile" /\ tileResp.cause = "image"
    /\ tileResp.path = AskedPath(tileResp)
    /\ \E k \in DOMAIN readers :
          readers[k] # tileResp.path /\ readers[k] \notin tileFiles

(***************************************************************************)
(* web_server.py: trigger_data_download_and_processing, the is-ready route *)
(* and viewport creation, as concurrent request handlers and threads       *)
(***************************************************************************)
\* pipeline threads followed at the same time
MaxRuns == 3

\* thread = threading.Thread(target=download_and_process); thread.start()
trigger_data_download_and_processing(r) ==
    [r EXCEPT !.spawned = r.spawned + 1]

\* POST /api/viewports/create: the viewport is written and the pipeline is
\* triggered
CreateViewport ==
    /\ UNCHANGED nonPollVars
    /\ ~created
    /\ created' = TRUE
    /\ runs' = trigger_data_download_and_processing(runs)
    /\ UNCHANGED <<tasks, pollPc, disk>>

\* is-ready up to the end of its `with tasks_lock` block: ready when the
\* pyramids exist, "downloading" when there are no embeddings, else
\* pipeline_running is read and the handler goes on to re-trigger when it is
\* False
PollCheck(p) ==
    /\ UNCHANGED nonPollVars
    /\ created
    /\ pollPc[p] = "idle"
    /\ LET is_ready == disk.pyramids
           has_embeddings == disk.mosaics
           pipeline_running == tasks \in {"starting", "in_progress"}
       IN pollPc' = [pollPc EXCEPT ![p] =
                        IF ~is_ready /\ has_embeddings /\ ~pipeline_running
                        THEN "trigger" ELSE "idle"]
    /\ UNCHANGED <<created, tasks, runs, disk>>

\* is-ready after the lock is released: `if not pipeline_running:` triggers
PollTrigger(p) ==
    /\ UNCHANGED nonPollVars
    /\ pollPc[p] = "trigger"
    /\ runs.spawned + runs.running < MaxRuns
    /\ runs' = trigger_data_download_and_processing(runs)
    /\ pollPc' = [pollPc EXCEPT ![p] = "idle"]
    /\ UNCHANGED <<created, tasks, disk>>

\* download_and_process, first statement: tasks[operation_id] = 'starting'
ThreadStart ==
    /\ UNCHANGED nonPollVars
    /\ runs.spawned > 0
    /\ runs' = [spawned |-> runs.spawned - 1, running |-> runs.running + 1]
    /\ tasks' = "starting"
    /\ UNCHANGED <<created, pollPc, disk>>

\* run_full_pipeline, stage 1 done: the mosaics are on disk
ThreadDownloads ==
    /\ UNCHANGED nonPollVars
    /\ runs.running > 0
    /\ ~disk.mosaics
    /\ disk' = [disk EXCEPT !.mosaics = TRUE]
    /\ UNCHANGED <<created, tasks, pollPc, runs>>

\* run_full_pipeline returns: tasks[operation_id] = 'success' with the
\* pyramids on disk, or 'failed'
ThreadFinish ==
    /\ UNCHANGED nonPollVars
    /\ runs.running > 0
    /\ runs' = [runs EXCEPT !.running = runs.running - 1]
    /\ \E success \in BOOLEAN :
         /\ success => disk.mosaics
         /\ tasks' = IF success THEN "success" ELSE "failed"
         /\ disk' = IF success THEN [disk EXCEPT !.pyramids = TRUE] ELSE disk
    /\ UNCHANGED <<created, pollPc>>

InitPoll ==
    /\ IdleIndex /\ IdleTile /\ IdleWin /\ IdlePyr /\ IdleShape /\ IdleRel /\ IdleCancel
    /\ IdleZoom /\ IdleBounds /\ IdlePool /\ IdleReplay /\ IdleBbox
    /\ IdleStage
    /\ IdlePoll

NextPoll ==
    \/ CreateViewport
    \/ \E p \in Pollers : PollCheck(p)
    \/ \E p \in Pollers : PollTrigger(p)
    \/ ThreadStart
    \/ ThreadDownloads
    \/ ThreadFinish

SpecPoll == InitPoll /\ [][NextPoll]_vars

\* C29: at most one pipeline run of the viewport is in progress at any time,
\* however the is-ready polls and the viewport creation interleave.
C29_AtMostOneRun == runs.spawned + runs.running <= 1

(***************************************************************************)
(* lib/pipeline.py: run_full_pipeline, run_script, cancel_pipeline         *)
(***************************************************************************)
\* the scripts of one run in the order run_script is called: stages 1 to 4,
\* then stage 4b once per year that has an index (two years here)
PipelineScripts ==
    <<"download_embeddings.py", "create_rgb_embeddings.py",
      "create_pyramids.py", "create_faiss_index.py",
      "compute_pca.py 2023", "compute_pca.py 2024">>

\* the stage fails the run when its script does: stages 1 to 4
IsCritical(i) == i <= 4

\* stage 4b calls run_script in a loop over the years, with check_cancelled
\* before and after the loop only
InsideLoop(i) == i = 6

\* after script i: the run is over, or check_cancelled comes before the next
\* script, or the loop goes straight on to the next year
AfterScript(i, returncode) ==
    IF IsCritical(i) /\ returncode # 0
    THEN [pc |-> "done", script |-> i, result |-> "failed"]
    ELSE IF i = Len(PipelineScripts)
    THEN [pc |-> "check", script |-> i + 1, result |-> "none"]
    ELSE IF InsideLoop(i + 1)
    THEN [pc |-> "launch", script |-> i + 1, result |-> "none"]
    ELSE [pc |-> "check", script |-> i + 1, result |-> "none"]

\* run_full_pipeline up to the first run_script, called when no run is
\* under way: the run is registered with cancelled False; stage 1 has no
\* check_cancelled before it
StartPipeline ==
    /\ UNCHANGED nonCancelVars
    /\ pipe.pc \in {"idle", "done"}
    /\ registry' = [registered |-> TRUE, cancelled |-> FALSE, process |-> "none"]
    /\ pipe' = [pc |-> "launch", script |-> 1, result |-> "none"]
    /\ UNCHANGED lateLaunches

\* check_cancelled() between two stages, and the one before the run returns
CheckCancelled ==
    /\ UNCHANGED nonCancelVars
    /\ pipe.pc = "check"
    /\ pipe' = IF registry.cancelled
               THEN [pipe EXCEPT !.pc = "done", !.result = "cancelled"]
               ELSE IF pipe.script > Len(PipelineScripts)
               THEN [pipe EXCEPT !.pc = "done", !.result = "complete"]
               ELSE [pipe EXCEPT !.pc = "launch"]
    /\ UNCHANGED <<registry, lateLaunches>>

\* run_script: subprocess.Popen, then the process is put in the registry
LaunchScript ==
    /\ UNCHANGED nonCancelVars
    /\ pipe.pc = "launch"
    /\ registry' = [registry EXCEPT !.process = "running"]
    /\ lateLaunches' = IF registry.cancelled
                       THEN lateLaunches \cup {PipelineScripts[pipe.script]}
                       ELSE lateLaunches
    /\ pipe' = [pipe EXCEPT !.pc = "wait"]

\* run_script, `while proc.poll() is None`: a cancelled run kills the
\* process and returns -1; else the process ends by itself, or has been
\* killed by cancel_pipeline
WaitScript ==
    /\ UNCHANGED nonCancelVars
    /\ pipe.pc = "wait"
    /\ \E returncode \in {0, 1, -1} :
         /\ registry.process = "killed" => returncode = -1
         /\ (registry.process = "running" /\ registry.cancelled) =>
               returncode = -1
         /\ pipe' = AfterScript(pipe.script, returncode)
    /\ registry' = [registry EXCEPT !.process = "exited"]
    /\ UNCHANGED lateLaunches

\* cancel_pipeline(viewport_name): marks a registered run cancelled and
\* kills its process when one is running
cancel_pipeline ==
    /\ UNCHANGED nonCancelVars
    /\ registry.registered
    /\ registry' = [registry EXCEPT
                       !.cancelled = TRUE,
                       !.process = IF @ = "running" THEN "killed" ELSE @]
    /\ UNCHANGED <<pipe, lateLaunches>>

InitCancel ==
    /\ IdleIndex /\ IdleTile /\ IdleWin /\ IdlePyr /\ IdleShape /\ IdleRel
    /\ IdleZoom /\ IdleBounds /\ IdlePool /\ IdleReplay /\ IdleBbox
    /\ IdleStage /\ IdlePoll
    /\ IdleCancel

NextCancel ==
    \/ StartPipeline
    \/ CheckCancelled
    \/ LaunchScript
    \/ WaitScript
    \/ cancel_pipeline

SpecCancel == InitCancel /\ [][NextCancel]_vars

\* C30: once cancel_pipeline has marked a running pipeline cancelled,
\* run_full_pipeline starts no further script subprocess for the viewport,
\* in any stage.
C30_NoLaunchAfterCancel == lateLaunches = {}

=============================================================================
